---------------------------- MODULE Spec2Model ----------------------------
(***************************************************************************)
(* A model of the TextView text engine of tview (src/unnamed/part_001):    *)
(* stream ingest (Write), the display index (reindexBuffer), the viewport  *)
(* (Draw, InputHandler) and the locking discipline around them.            *)
(*                                                                         *)
(* A byte string is a sequence of bytes; a byte is a one-character string  *)
(* for ASCII and "xHH" for a byte >= 0x80 (HH its hexadecimal value).      *)
(***************************************************************************)
EXTENDS Integers, Sequences, FiniteSets, TLC

VARIABLES
    \* The fields of TextView (part_001:80-157).
    buffer,             \* t.buffer: the logical lines
    recentBytes,        \* t.recentBytes: received but not yet committed
    index,              \* t.index: <<>> is nil
    align,              \* t.align
    fromHighlight,      \* t.fromHighlight
    toHighlight,        \* t.toHighlight
    highlights,         \* t.highlights: a set of region ids
    lastWidth,          \* t.lastWidth
    longestLine,        \* t.longestLine
    lineOffset,         \* t.lineOffset
    trackEnd,           \* t.trackEnd
    columnOffset,       \* t.columnOffset
    pageSize,           \* t.pageSize
    scrollable,         \* t.scrollable
    wrap,               \* t.wrap
    wordWrap,           \* t.wordWrap
    textColor,          \* t.textColor
    dynamicColors,      \* t.dynamicColors
    regions,            \* t.regions
    scrollToHighlights, \* t.scrollToHighlights
    changed,            \* t.changed: "nil" or the kind of handler registered
                        \* ("notify", "draw" or "write")
    \* The inner rectangle of the Box (box.go:118-133).
    width,
    height,
    \* The embedded sync.Mutex and the goroutines calling into the view.
    mutex,              \* "none" or the thread that holds the lock
    stack,              \* per thread, the frames of its calls in progress
    \* How a call ended that did not return: "none", "hung" or "panic".
    fault,
    \* History.
    \* The fields of Pages (pages.go:24-38).
    pages,              \* p.pages: the pages, each with its Name and Visible
    curr,               \* p.curr: <<>> is nil, <<name>> points to a page of
                        \* that Name (the code asks the page it points to
                        \* for nothing but its Name and its Item)
    \* The sync.RWMutex of the Box of the Pages (box.go:19), the one of each
    \* Page (pages.go:11) and the goroutines calling into the Pages.
    boxLock,            \* its writer ("none" or a goroutine) and its readers
    pageLock,           \* per page name, the same
    routine,            \* per goroutine, where it is in its call
    written,            \* every byte passed to Write, in order
    last                \* the last call of Write, Draw, Clear, the handler or
                        \* the input handler: its input, the state before it,
                        \* its return values and what ran during it

content == <<buffer, recentBytes>>
derived == <<index, fromHighlight, toHighlight, lastWidth, longestLine>>
viewport == <<lineOffset, trackEnd, columnOffset, pageSize, scrollToHighlights>>
config == <<align, highlights, scrollable, wrap, wordWrap, textColor,
            dynamicColors, regions>>
rect == <<width, height>>
threads == <<mutex, stack>>
locking == <<boxLock, pageLock, routine>>

container == <<pages, curr, locking>>

vars == <<content, derived, viewport, config, changed, rect, threads, fault,
          container, written, last>>

----------------------------------------------------------------------------
(* Bounds of the model.                                                    *)

\* Longest input of one Write call.
MaxWriteLen == 2
\* Longest total stream written in one behaviour.
MaxStream == 3

----------------------------------------------------------------------------
(* Bytes and character classes.                                            *)

\* TabSize (part_001:14).
TabSize == 4

Letters ==
    {"a","b","c","d","e","f","g","h","i","j","k","l","m","n","o","p","q","r",
     "s","t","u","v","w","x","y","z","A","B","C","D","E","F","G","H","I","J",
     "K","L","M","N","O","P","Q","R","S","T","U","V","W","X","Y","Z"}

Digits == {"0","1","2","3","4","5","6","7","8","9"}

AlNum == Letters \cup Digits

\* The class [a-zA-Z0-9_,;: \-\.] of region ids.
RegionIDChars == AlNum \cup {"_", ",", ";", ":", " ", "-", "."}

\* UTF-8 byte classes: the bytes >= 0x80 the model writes are those of
\* U+00E9 (C3 A9, one column) and U+4E16 (E4 B8 96, two columns).
Lead2 == {"xC3"}
Lead3 == {"xE4"}
Cont == {"xA9", "xB8", "x96"}
IsASCII(b) == b \notin (Lead2 \cup Lead3 \cup Cont)

----------------------------------------------------------------------------
(* Sequence helpers.                                                       *)

Min(S) == CHOOSE x \in S : \A y \in S : x <= y
Max(S) == CHOOSE x \in S : \A y \in S : x >= y

\* s[from..to], empty when from > to (a Go slice s[from-1:to]).
Slice(s, from, to) == IF from > to THEN <<>> ELSE SubSeq(s, from, to)

AllIn(s, from, to, class) == \A i \in from..to : s[i] \in class

RECURSIVE Repeat(_, _)
Repeat(b, n) == IF n <= 0 THEN <<>> ELSE <<b>> \o Repeat(b, n - 1)

\* All byte strings over alphabet A of length at most n.
RECURSIVE SeqsUpTo(_, _)
SeqsUpTo(A, n) ==
    IF n = 0 THEN {<<>>}
    ELSE LET shorter == SeqsUpTo(A, n - 1)
         IN  shorter \cup {Append(s, b) : s \in shorter, b \in A}

----------------------------------------------------------------------------
(* Write (part_001:414-472).                                               *)

\* utf8.DecodeLastRune(p) == RuneError (part_001:428): p is empty or does not
\* end in a complete, valid encoding.
DecodeLastRuneIsError(p) ==
    LET n == Len(p)
    IN  \/ n = 0
        \/ ~ \/ IsASCII(p[n])
             \/ n >= 2 /\ p[n-1] \in Lead2 /\ p[n] \in Cont
             \/ n >= 3 /\ p[n-2] \in Lead3 /\ p[n-1] \in Cont /\ p[n] \in Cont

\* openColor.FindIndex(newBytes)[0] for \[([a-zA-Z]*|#[0-9a-zA-Z]*)$
\* (part_001:435-436), 1-based; 0 when there is no match.
OpenColorLocation(s) ==
    LET n == Len(s)
        M == {i \in 1..n :
                /\ s[i] = "["
                /\ \/ AllIn(s, i + 1, n, Letters)
                   \/ i < n /\ s[i+1] = "#" /\ AllIn(s, i + 2, n, AlNum)}
    IN  IF M = {} THEN 0 ELSE Min(M)

\* openRegion.FindIndex(newBytes)[0] for \["[a-zA-Z0-9_,;: \-\.]*"?$
\* (part_001:445-446), 1-based; 0 when there is no match.
OpenRegionLocation(s) ==
    LET n == Len(s)
        M == {i \in 1..n :
                /\ s[i] = "[" /\ i < n /\ s[i+1] = "\""
                /\ \/ AllIn(s, i + 2, n, RegionIDChars)
                   \/ s[n] = "\"" /\ n >= i + 2
                      /\ AllIn(s, i + 2, n - 1, RegionIDChars)}
    IN  IF M = {} THEN 0 ELSE Min(M)

\* A faulty WriteHeld: the early return reports no byte as accepted.
WriteHeldNone(newBytes, p) ==
    [recentBytes |-> newBytes, newBytes |-> <<>>, committed |-> FALSE,
     n |-> 0, err |-> "nil"]

\* A faulty WriteHeld: the early return keeps only the bytes of this call.
WriteHeldInput(newBytes, p) ==
    [recentBytes |-> p, newBytes |-> <<>>, committed |-> FALSE,
     n |-> Len(p), err |-> "nil"]

\* The early return of part_001:428-431: everything is kept for later.
WriteHeld(newBytes, p) ==
    [recentBytes |-> newBytes, newBytes |-> <<>>, committed |-> FALSE,
     n |-> Len(p), err |-> "nil"]

\* part_001:434-441 on the pair (recentBytes, newBytes).
ExcludeOpenColor(st, dyn) ==
    LET loc == OpenColorLocation(st.newBytes)
    IN  IF dyn /\ loc # 0
        THEN [recentBytes |-> Slice(st.newBytes, loc, Len(st.newBytes)),
              newBytes    |-> Slice(st.newBytes, 1, loc - 1)]
        ELSE st

\* part_001:444-451 on the pair (recentBytes, newBytes).
ExcludeOpenRegion(st, reg) ==
    LET loc == OpenRegionLocation(st.newBytes)
    IN  IF reg /\ loc # 0
        THEN [recentBytes |-> Slice(st.newBytes, loc, Len(st.newBytes)),
              newBytes    |-> Slice(st.newBytes, 1, loc - 1)]
        ELSE st

\* bytes.Replace(newBytes, "\t", TabSize spaces, -1) (part_001:455).
RECURSIVE ReplaceTabs(_)
ReplaceTabs(s) ==
    IF s = <<>> THEN <<>>
    ELSE (IF Head(s) = "\t" THEN Repeat(" ", TabSize) ELSE <<Head(s)>>)
         \o ReplaceTabs(Tail(s))

\* regexp `\r?\n`.Split(s, -1) (part_001:454, 456): always at least one line.
RECURSIVE SplitFrom(_, _, _)
SplitFrom(s, i, cur) ==
    IF i > Len(s) THEN <<cur>>
    ELSE IF s[i] = "\n" THEN <<cur>> \o SplitFrom(s, i + 1, <<>>)
    ELSE IF s[i] = "\r" /\ i < Len(s) /\ s[i+1] = "\n"
         THEN <<cur>> \o SplitFrom(s, i + 2, <<>>)
    ELSE SplitFrom(s, i + 1, Append(cur, s[i]))

SplitNewLine(s) == SplitFrom(s, 1, <<>>)

\* A faulty AppendLines: the first segment starts a line of its own.
AppendLinesApart(buf, lines) == buf \o lines

\* The loop of part_001:456-466.
AppendLines(buf, lines) ==
    IF Len(buf) = 0 THEN lines
    ELSE [buf EXCEPT ![Len(buf)] = @ \o Head(lines)] \o Tail(lines)

\* What Write does with newBytes once the open tags are excluded
\* (part_001:453-471).
WriteCommitted(st, p) ==
    [recentBytes |-> st.recentBytes, newBytes |-> st.newBytes,
     committed |-> TRUE, n |-> Len(p), err |-> "nil"]

\* The values Write computes: the new pending bytes, the bytes it commits,
\* and what it returns.
WriteResult(rb, p, dyn, reg) ==
    IF DecodeLastRuneIsError(p) THEN WriteHeld(rb \o p, p)
    ELSE WriteCommitted(
             ExcludeOpenRegion(
                 ExcludeOpenColor([recentBytes |-> <<>>, newBytes |-> rb \o p],
                                  dyn),
                 reg),
             p)

----------------------------------------------------------------------------
(* The tag patterns and the width functions reindexBuffer uses.  A match   *)
(* is [s, e]: Go's byte range [s, e) of FindAllStringIndex (0-based start, *)
(* exclusive end), so that bytes s+1..e of the 1-based sequence are the    *)
(* match.                                                                  *)

HexDigits == Digits \cup {"a","b","c","d","e","f","A","B","C","D","E","F"}

\* The class \s of the regular expressions.
Whitespace == {" ", "\t", "\n", "\r", "\f"}

\* The class [[:punct:]] (the backquote, which no line of the model holds,
\* is left out).
Punct == {"!", "\"", "#", "$", "%", "&", "'", "(", ")", "*", "+", ",", "-",
          ".", "/", ":", ";", "<", "=", ">", "?", "@", "[", "\\", "]", "^",
          "_", "{", "|", "}", "~"}

\* The bytes allowed between the brackets of an escaped tag.
EscapeBodyChars == RegionIDChars \cup {"\"", "#"}

\* The end (1-based, inclusive) of the longest run of class bytes starting at
\* position i; i - 1 when s[i] is not in the class.
RECURSIVE RunEnd(_, _, _)
RunEnd(s, i, class) ==
    IF i <= Len(s) /\ s[i] \in class THEN RunEnd(s, i + 1, class) ELSE i - 1

\* The end (1-based, inclusive) of the match of pattern `kind` that starts at
\* position i of s, or 0 when the pattern does not match there.
MatchEnd(kind, s, i) ==
    LET n == Len(s)
    IN  CASE kind = "color" ->
               \* \[([A-Za-z]+|#[0-9A-Fa-f]{6})\]
               IF s[i] # "[" THEN 0
               ELSE LET j == RunEnd(s, i + 1, Letters)
                    IN  IF j >= i + 1 /\ j < n /\ s[j+1] = "]" THEN j + 1
                        ELSE IF /\ i + 8 <= n
                                /\ s[i+1] = "#"
                                /\ AllIn(s, i + 2, i + 7, HexDigits)
                                /\ s[i+8] = "]"
                        THEN i + 8
                        ELSE 0
          [] kind = "region" ->
               \* \["([A-Za-z0-9_,;: .\-]*)"\]
               IF ~(s[i] = "[" /\ i < n /\ s[i+1] = "\"") THEN 0
               ELSE LET j == RunEnd(s, i + 2, RegionIDChars)
                    IN  IF j + 2 <= n /\ s[j+1] = "\"" /\ s[j+2] = "]"
                        THEN j + 2 ELSE 0
          [] kind = "escape" ->
               \* \[([A-Za-z0-9_,;: .\-"#]+)\[(\[*)\]
               IF s[i] # "[" THEN 0
               ELSE LET j == RunEnd(s, i + 1, EscapeBodyChars)
                    IN  IF j >= i + 1 /\ j < n /\ s[j+1] = "["
                        THEN LET k == RunEnd(s, j + 2, {"["})
                             IN  IF k < n /\ s[k+1] = "]" THEN k + 1 ELSE 0
                        ELSE 0
          [] kind = "space" ->
               \* \s+
               IF s[i] \in Whitespace THEN RunEnd(s, i, Whitespace) ELSE 0
          [] kind = "boundary" ->
               \* ([[:punct:]]\s*|\s+)
               IF s[i] \in Punct THEN RunEnd(s, i + 1, Whitespace)
               ELSE IF s[i] \in Whitespace THEN RunEnd(s, i, Whitespace)
               ELSE 0

\* pattern.FindAllStringIndex(s, -1): the leftmost matches, left to right,
\* none overlapping another.
RECURSIVE FindAllFrom(_, _, _)
FindAllFrom(kind, s, i) ==
    IF i > Len(s) THEN <<>>
    ELSE LET e == MatchEnd(kind, s, i)
         IN  IF e = 0 THEN FindAllFrom(kind, s, i + 1)
             ELSE <<[s |-> i - 1, e |-> e]>> \o FindAllFrom(kind, s, e + 1)

FindAll(kind, s) == FindAllFrom(kind, s, 1)

\* The bytes of s at the positions not in drop, in order.
RECURSIVE KeepFrom(_, _, _)
KeepFrom(s, i, drop) ==
    IF i > Len(s) THEN <<>>
    ELSE (IF i \in drop THEN <<>> ELSE <<s[i]>>) \o KeepFrom(s, i + 1, drop)

\* pattern.ReplaceAllString(s, "") for the matches ms of s.
RemoveMatches(s, ms) ==
    KeepFrom(s, 1, UNION {(ms[k].s + 1)..ms[k].e : k \in 1..Len(ms)})

\* escapePattern.ReplaceAllString(s, "[$1$2]"): each match loses the one
\* opening bracket that follows its body.
ReplaceEscapes(s, ms) ==
    KeepFrom(s, 1, {ms[k].e - 1 : k \in 1..Len(ms)})

\* The payload (submatch 1) of a color or region tag match m of s.
TagPayload(kind, s, m) ==
    IF kind = "color" THEN Slice(s, m.s + 2, m.e - 1)
    ELSE Slice(s, m.s + 3, m.e - 2)

\* The number of bytes of the character whose first byte is b.
RuneLen(b) == IF b \in Lead2 THEN 2 ELSE IF b \in Lead3 THEN 3 ELSE 1

\* runewidth.RuneWidth of the character whose first byte is b; 0 for a
\* continuation byte, so that summing over bytes gives the string's width.
ControlBytes == {"\t", "\n", "\r", "\f"}
ByteWidth(b) ==
    IF b \in Cont \/ b \in ControlBytes THEN 0
    ELSE IF b \in Lead3 THEN 2
    ELSE 1

\* runewidth.StringWidth.
RECURSIVE StringWidth(_)
StringWidth(s) ==
    IF s = <<>> THEN 0 ELSE ByteWidth(Head(s)) + StringWidth(Tail(s))

\* The byte length of runewidth.Truncate(s, w, "") when s is wider than w.
RECURSIVE TruncateLen(_, _, _, _)
TruncateLen(s, i, acc, w) ==
    IF i > Len(s) THEN Len(s)
    ELSE IF acc + ByteWidth(s[i]) > w THEN i - 1
    ELSE TruncateLen(s, i + RuneLen(s[i]), acc + ByteWidth(s[i]), w)

\* A cut that takes the whole text when not even its first character fits.
TruncateOrAll(s, w) ==
    IF StringWidth(s) <= w \/ TruncateLen(s, 1, 0, w) = 0 THEN s
    ELSE Slice(s, 1, TruncateLen(s, 1, 0, w))

\* runewidth.Truncate(s, w, "").
Truncate(s, w) ==
    IF StringWidth(s) <= w THEN s ELSE Slice(s, 1, TruncateLen(s, 1, 0, w))

----------------------------------------------------------------------------
(* reindexBuffer (part_001:478-626).  Positions and line numbers are Go's  *)
(* 0-based ones; line k of the buffer is buffer[k + 1].                    *)

\* tcell.GetColor: a known color name gives that color, anything else the
\* default color.
GetColor(payload) ==
    IF payload = <<"r", "e", "d">> THEN "red"
    ELSE IF payload = <<"b", "l", "u", "e">> THEN "blue"
    ELSE "default"

\* The cut of n bytes left where the width put it.
AddSpacesNone(str, n) == Slice(str, 1, n)

\* part_001:533-535: the cut of n bytes (n < Len(str)) extended through the
\* whitespace that follows it.
AddSpaces(str, n) ==
    Slice(str, 1, IF str[n + 1] \in Whitespace
                  THEN RunEnd(str, n + 1, Whitespace) ELSE n)

\* part_001:539-542 for the boundary matches of extract.
CutAtLast(extract, matches) ==
    IF Len(matches) > 0 THEN Slice(extract, 1, matches[Len(matches)].e)
    ELSE extract

\* part_001:538-542: the cut retreats to the end of its last boundary.
RetreatToBoundary(extract) == CutAtLast(extract, FindAll("boundary", extract))

\* part_001:531-543 for the width-limited cut extract.
WordWrapCut(str, extract, onWords) ==
    IF onWords /\ Len(extract) < Len(str)
    THEN RetreatToBoundary(AddSpaces(str, Len(extract)))
    ELSE extract

\* One pass of the carving loop, part_001:530-543: the piece cut from str.
Extract(str, maxWidth, onWords) ==
    WordWrapCut(str, Truncate(str, maxWidth), onWords)

\* The carving loop, part_001:529-546.  It ends when str is consumed; a pass
\* that cuts an empty piece leaves str as it was, and the loop never ends:
\* the pieces are then those cut before that pass.
RECURSIVE Carve(_, _, _)
RECURSIVE CarveRest(_, _, _, _)
CarveRest(str, extract, maxWidth, onWords) ==
    IF Len(extract) = 0 THEN <<>>
    ELSE <<extract>>
         \o Carve(Slice(str, Len(extract) + 1, Len(str)), maxWidth, onWords)

Carve(str, maxWidth, onWords) ==
    IF Len(str) = 0 THEN <<>>
    ELSE CarveRest(str, Extract(str, maxWidth, onWords), maxWidth, onWords)

\* The number of bytes of the pieces.
RECURSIVE TotalLen(_)
TotalLen(pieces) ==
    IF pieces = <<>> THEN 0 ELSE Len(Head(pieces)) + TotalLen(Tail(pieces))

\* Whether the carving loop of part_001:529-546 runs forever on str: it ends
\* only when the pieces have consumed str.
CarveDiverges(str, maxWidth, onWords) ==
    TotalLen(Carve(str, maxWidth, onWords)) < Len(str)

\* A faulty SplitLines: a line with nothing to show gives no piece.
SplitLinesOfText(str, doWrap, onWords, maxWidth) ==
    IF Len(str) = 0 THEN <<>>
    ELSE IF doWrap THEN Carve(str, maxWidth, onWords) ELSE <<str>>

\* part_001:526-550.
SplitLines(str, doWrap, onWords, maxWidth) ==
    IF doWrap /\ Len(str) > 0 THEN Carve(str, maxWidth, onWords) ELSE <<str>>

\* The loop of part_001:564-594: the tags that start at or before the end of
\* the piece are applied and their bytes added to originalPos.  st holds
\* originalPos, colorPos, regionPos, escapePos, color, regionID,
\* fromHighlight and toHighlight; indexLen is len(t.index).
RECURSIVE ShiftTags(_, _, _, _)
ShiftTags(st, lineLength, ctx, indexLen) ==
    IF /\ st.colorPos < Len(ctx.colorTagIndices)
       /\ ctx.colorTagIndices[st.colorPos + 1].s <= st.originalPos + lineLength
    THEN LET m == ctx.colorTagIndices[st.colorPos + 1]
         IN  ShiftTags([st EXCEPT !.originalPos = @ + (m.e - m.s),
                                  !.color = GetColor(ctx.colorTags[st.colorPos + 1]),
                                  !.colorPos = @ + 1],
                       lineLength, ctx, indexLen)
    ELSE IF /\ st.regionPos < Len(ctx.regionIndices)
            /\ ctx.regionIndices[st.regionPos + 1].s <= st.originalPos + lineLength
    THEN LET m == ctx.regionIndices[st.regionPos + 1]
             id == ctx.regions[st.regionPos + 1]
             highlighted == id \in ctx.highlights
             from == IF highlighted /\ st.fromHighlight < 0
                     THEN indexLen ELSE st.fromHighlight
             to == IF highlighted /\ st.fromHighlight < 0 THEN indexLen
                   ELSE IF highlighted /\ indexLen > st.toHighlight THEN indexLen
                   ELSE st.toHighlight
         IN  ShiftTags([st EXCEPT !.originalPos = @ + (m.e - m.s),
                                  !.regionID = id,
                                  !.fromHighlight = from,
                                  !.toHighlight = to,
                                  !.regionPos = @ + 1],
                       lineLength, ctx, indexLen)
    ELSE IF /\ st.escapePos < Len(ctx.escapeIndices)
            /\ ctx.escapeIndices[st.escapePos + 1].s <= st.originalPos + lineLength
    THEN ShiftTags([st EXCEPT !.originalPos = @ + 1, !.escapePos = @ + 1],
                   lineLength, ctx, indexLen)
    ELSE st

\* The loop of part_001:554-603 from piece k on: one index entry per piece.
\* st is the state before the piece, st1 the state after its tags.
RECURSIVE IndexSplitLines(_, _, _, _, _, _)
RECURSIVE IndexPiece(_, _, _, _, _, _, _)
IndexPiece(splitLines, k, st, st1, idx, ctx, bufferIndex) ==
    IndexSplitLines(
        splitLines, k + 1,
        [st1 EXCEPT !.originalPos = @ + Len(splitLines[k])],
        Append(idx, [Line    |-> bufferIndex,
                     Pos     |-> st.originalPos,
                     NextPos |-> st1.originalPos + Len(splitLines[k]),
                     Width   |-> StringWidth(splitLines[k]),
                     Color   |-> st.color,
                     Region  |-> st.regionID]),
        ctx, bufferIndex)

IndexSplitLines(splitLines, k, st, idx, ctx, bufferIndex) ==
    IF k > Len(splitLines) THEN [st |-> st, index |-> idx]
    ELSE IndexPiece(splitLines, k, st,
                    ShiftTags(st, Len(splitLines[k]), ctx, Len(idx)),
                    idx, ctx, bufferIndex)

\* A cut that takes one byte more than the whitespace match.
CutTrailingSpaceAndOne(line, raw, m) ==
    [line EXCEPT
       !.NextPos = @ - (m.e - m.s) - 1,
       !.Width = @ - StringWidth(Slice(raw, line.NextPos - (m.e - m.s) + 1,
                                       line.NextPos))]

\* part_001:610-614 for an index entry whose text str ends in the whitespace
\* match m.
CutTrailingSpace(line, raw, m) ==
    [line EXCEPT
       !.NextPos = @ - (m.e - m.s),
       !.Width = @ - StringWidth(Slice(raw, line.NextPos - (m.e - m.s) + 1,
                                       line.NextPos))]

\* part_001:608-614 for an index entry with text str of the line raw.
TrimMatched(line, raw, str, spaces) ==
    IF Len(spaces) > 0 /\ spaces[Len(spaces)].e = Len(str)
    THEN CutTrailingSpace(line, raw, spaces[Len(spaces)])
    ELSE line

TrimText(line, raw, str) == TrimMatched(line, raw, str, FindAll("space", str))

TrimTrailingSpace(line, buf) ==
    TrimText(line, buf[line.Line + 1],
             Slice(buf[line.Line + 1], line.Pos + 1, line.NextPos))

\* A trim that does not ask whether word wrap is on.
TrimIndexAlways(idx, t) ==
    [k \in 1..Len(idx) |-> TrimTrailingSpace(idx[k], t.buffer)]

\* part_001:605-616.
TrimIndex(idx, t) ==
    IF t.wrap /\ t.wordWrap
    THEN [k \in 1..Len(idx) |-> TrimTrailingSpace(idx[k], t.buffer)]
    ELSE idx

\* The payloads (submatch 1) of the matches ms of s.
Payloads(kind, s, ms) == [k \in 1..Len(ms) |-> TagPayload(kind, s, ms[k])]

\* part_001:498-506 for the color tag matches ms of the line str.
StripColors(str, ms) ==
    [str |-> RemoveMatches(str, ms), colorTagIndices |-> ms,
     colorTags |-> Payloads("color", str, ms)]

\* part_001:509-517 for the region tag matches ms of sc.str.
StripRegions(sc, ms) ==
    [str |-> RemoveMatches(sc.str, ms),
     colorTagIndices |-> sc.colorTagIndices, colorTags |-> sc.colorTags,
     regionIndices |-> ms, regions |-> Payloads("region", sc.str, ms)]

\* part_001:520-524 for the escape tag matches ms of sc.str.
StripEscapes(sc, ms, hl) ==
    [str |-> ReplaceEscapes(sc.str, ms),
     colorTagIndices |-> sc.colorTagIndices, colorTags |-> sc.colorTags,
     regionIndices |-> sc.regionIndices, regions |-> sc.regions,
     escapeIndices |-> ms, highlights |-> hl]

\* The tags found whether the feature is on or not.
FindTagsAlways(on, kind, s) == FindAll(kind, s)

\* pattern.FindAllStringIndex(s, -1) if the feature is on.
FindTags(on, kind, s) == IF on THEN FindAll(kind, s) ELSE <<>>

ScanColors(t, str) == StripColors(str, FindTags(t.dynamicColors, "color", str))

ScanRegions(t, sc) == StripRegions(sc, FindTags(t.regions, "region", sc.str))

ScanEscapes(t, sc) ==
    StripEscapes(sc, FindTags(t.dynamicColors \/ t.regions, "escape", sc.str),
                 t.highlights)

\* part_001:497-524: the line without its tags, and where the tags were.
ScanLine(t, str) == ScanEscapes(t, ScanRegions(t, ScanColors(t, str)))

\* A loop over the buffer that starts every line with the base text color
\* and in no region.
AfterLineReset(t, r, diverges) ==
    [color |-> t.textColor, regionID |-> <<>>,
     fromHighlight |-> r.st.fromHighlight, toHighlight |-> r.st.toHighlight,
     index |-> TrimIndex(r.index, t), diverges |-> diverges]

\* The state of the loop over the buffer after a line whose entries are r.
AfterLine(t, r, diverges) ==
    [color |-> r.st.color, regionID |-> r.st.regionID,
     fromHighlight |-> r.st.fromHighlight, toHighlight |-> r.st.toHighlight,
     index |-> TrimIndex(r.index, t), diverges |-> diverges]

\* part_001:526-617 for a scanned line.
IndexScanned(acc, bufferIndex, t, sc) ==
    AfterLine(t,
        IndexSplitLines(
            SplitLines(sc.str, t.wrap, t.wordWrap, t.width), 1,
            [originalPos |-> 0, colorPos |-> 0, regionPos |-> 0,
             escapePos |-> 0, color |-> acc.color, regionID |-> acc.regionID,
             fromHighlight |-> acc.fromHighlight,
             toHighlight |-> acc.toHighlight],
            acc.index, sc, bufferIndex),
        t.wrap /\ CarveDiverges(sc.str, t.width, t.wordWrap))

\* The body of the loop over the buffer, part_001:496-617, for line
\* bufferIndex.  acc holds color, regionID, fromHighlight, toHighlight,
\* index and diverges; t holds the view's fields.
IndexBufferLine(acc, bufferIndex, t) ==
    IndexScanned(acc, bufferIndex, t, ScanLine(t, t.buffer[bufferIndex + 1]))

\* The loop of part_001:496-617 from line bufferIndex on; it does not get
\* past a line whose carving loop never ends.
RECURSIVE IndexBufferFrom(_, _, _)
IndexBufferFrom(acc, bufferIndex, t) ==
    IF bufferIndex >= Len(t.buffer) \/ acc.diverges THEN acc
    ELSE IndexBufferFrom(IndexBufferLine(acc, bufferIndex, t), bufferIndex + 1, t)

\* part_001:619-625.
LongestLine(idx) == Max({idx[k].Width : k \in 1..Len(idx)} \cup {0})

\* What reindexBuffer leaves when the loop over the buffer ended in r.
Reindexed(r) ==
    [index |-> r.index, fromHighlight |-> r.fromHighlight,
     toHighlight |-> r.toHighlight, longestLine |-> LongestLine(r.index),
     diverges |-> r.diverges]

\* reindexBuffer(width), with t.width the argument: the index, the highlight
\* range and the longest line it leaves, and whether it never returns.
ReindexBuffer(t) ==
    IF t.index # <<>>
    THEN [index |-> t.index, fromHighlight |-> t.fromHighlight,
          toHighlight |-> t.toHighlight, longestLine |-> t.longestLine,
          diverges |-> FALSE]
    ELSE IF t.width < 1
    THEN [index |-> <<>>, fromHighlight |-> -1, toHighlight |-> -1,
          longestLine |-> t.longestLine, diverges |-> FALSE]
    ELSE Reindexed(IndexBufferFrom(
             [color |-> t.textColor, regionID |-> <<>>, fromHighlight |-> -1,
              toHighlight |-> -1, index |-> <<>>, diverges |-> FALSE],
             0, t))

----------------------------------------------------------------------------
(* The view as one record, and the bodies of its methods as functions of   *)
(* it.                                                                     *)

View ==
    [buffer |-> buffer, recentBytes |-> recentBytes, index |-> index,
     align |-> align, fromHighlight |-> fromHighlight,
     toHighlight |-> toHighlight, highlights |-> highlights,
     lastWidth |-> lastWidth, longestLine |-> longestLine,
     lineOffset |-> lineOffset, trackEnd |-> trackEnd,
     columnOffset |-> columnOffset, pageSize |-> pageSize,
     scrollable |-> scrollable, wrap |-> wrap, wordWrap |-> wordWrap,
     textColor |-> textColor, dynamicColors |-> dynamicColors,
     regions |-> regions, scrollToHighlights |-> scrollToHighlights,
     width |-> width, height |-> height, fault |-> fault]

\* The next state holds the view t.
Install(t) ==
    /\ buffer' = t.buffer
    /\ recentBytes' = t.recentBytes
    /\ index' = t.index
    /\ align' = t.align
    /\ fromHighlight' = t.fromHighlight
    /\ toHighlight' = t.toHighlight
    /\ highlights' = t.highlights
    /\ lastWidth' = t.lastWidth
    /\ longestLine' = t.longestLine
    /\ lineOffset' = t.lineOffset
    /\ trackEnd' = t.trackEnd
    /\ columnOffset' = t.columnOffset
    /\ pageSize' = t.pageSize
    /\ scrollable' = t.scrollable
    /\ wrap' = t.wrap
    /\ wordWrap' = t.wordWrap
    /\ textColor' = t.textColor
    /\ dynamicColors' = t.dynamicColors
    /\ regions' = t.regions
    /\ scrollToHighlights' = t.scrollToHighlights
    /\ width' = t.width
    /\ height' = t.height
    /\ fault' = t.fault

\* Go's integer division, which truncates toward zero (b > 0).
GoDiv(a, b) == IF a >= 0 THEN a \div b ELSE -((-a) \div b)

\* The view after a Write that computed r.
WriteStore(t, r) ==
    IF r.committed
    THEN [t EXCEPT !.recentBytes = r.recentBytes,
                   !.buffer = AppendLines(t.buffer,
                                  SplitNewLine(ReplaceTabs(r.newBytes))),
                   !.index = <<>>]
    ELSE [t EXCEPT !.recentBytes = r.recentBytes]

\* Write between Lock and Unlock, part_001:423-471.
WriteBody(t, p) ==
    WriteStore(t, WriteResult(t.recentBytes, p, t.dynamicColors, t.regions))

\* Clear, part_001:286-291.
ClearBody(t) == [t EXCEPT !.buffer = <<>>, !.recentBytes = <<>>, !.index = <<>>]

\* A Draw that keeps the index when the width has changed.
DrawBeginKeep(t) == [t EXCEPT !.pageSize = t.height, !.lastWidth = t.width]

\* Draw, part_001:635-642: the page size and the width check.
DrawBegin(t) ==
    [t EXCEPT !.pageSize = t.height,
              !.index = IF t.width # t.lastWidth THEN <<>> ELSE @,
              !.lastWidth = t.width]

\* The view after reindexBuffer left r; a re-index that never ends is a
\* fault.
StoreIndex(t, r) ==
    IF r.diverges THEN [t EXCEPT !.fault = "hung"]
    ELSE [t EXCEPT !.index = r.index,
                   !.fromHighlight = r.fromHighlight,
                   !.toHighlight = r.toHighlight,
                   !.longestLine = r.longestLine]

\* t.reindexBuffer(width), part_001:645.
Reindex(t) == StoreIndex(t, ReindexBuffer(t))

\* Draw, part_001:635-645: the page size, the width check and the re-index.
DrawReindex(t) == Reindex(DrawBegin(t))

\* A move that always puts the first highlighted line at the top.
DrawMoveToHighlightsTop(t) ==
    [t EXCEPT
       !.lineOffset =
           IF t.regions /\ t.scrollToHighlights /\ t.fromHighlight >= 0
           THEN t.fromHighlight
           ELSE @,
       !.scrollToHighlights = FALSE]

\* Draw, part_001:652-663.
DrawMoveToHighlights(t) ==
    [t EXCEPT
       !.lineOffset =
           IF t.regions /\ t.scrollToHighlights /\ t.fromHighlight >= 0
           THEN IF t.toHighlight - t.fromHighlight + 1 < t.height
                THEN GoDiv(t.fromHighlight + t.toHighlight - t.height, 2)
                ELSE t.fromHighlight
           ELSE @,
       !.scrollToHighlights = FALSE]

\* The line offset adjusted without the floor at 0.
DrawAdjustLineOffsetNoFloor(t) ==
    LET te == t.trackEnd \/ t.lineOffset + t.height > Len(t.index)
    IN  [t EXCEPT !.trackEnd = te,
                  !.lineOffset = IF te THEN Len(t.index) - t.height ELSE @]

\* The line offset adjusted only when the window overruns the index.
DrawAdjustLineOffsetOnOverrun(t) ==
    LET te == t.lineOffset + t.height > Len(t.index)
        lo == IF te THEN Len(t.index) - t.height ELSE t.lineOffset
    IN  [t EXCEPT !.trackEnd = @ \/ te, !.lineOffset = IF lo < 0 THEN 0 ELSE lo]

\* Draw, part_001:665-674.
DrawAdjustLineOffset(t) ==
    LET te == t.trackEnd \/ t.lineOffset + t.height > Len(t.index)
        lo == IF te THEN Len(t.index) - t.height ELSE t.lineOffset
    IN  [t EXCEPT !.trackEnd = te, !.lineOffset = IF lo < 0 THEN 0 ELSE lo]

\* The column offset adjusted without the floor of a left-aligned view.
DrawAdjustColumnOffsetNoFloor(t) ==
    [t EXCEPT
       !.columnOffset =
           IF t.align = "left"
           THEN IF @ + t.width > t.longestLine
                THEN t.longestLine - t.width ELSE @
           ELSE IF t.align = "right"
           THEN LET c == IF @ - t.width < -t.longestLine
                         THEN t.width - t.longestLine ELSE @
                IN  IF c > 0 THEN 0 ELSE c
           ELSE LET half == GoDiv(t.longestLine - t.width, 2)
                IN  IF half > 0
                    THEN LET c == IF @ > half THEN half ELSE @
                         IN  IF c < -half THEN -half ELSE c
                    ELSE 0]

\* Draw, part_001:676-703.
DrawAdjustColumnOffset(t) ==
    [t EXCEPT
       !.columnOffset =
           IF t.align = "left"
           THEN LET c == IF @ + t.width > t.longestLine
                         THEN t.longestLine - t.width ELSE @
                IN  IF c < 0 THEN 0 ELSE c
           ELSE IF t.align = "right"
           THEN LET c == IF @ - t.width < -t.longestLine
                         THEN t.width - t.longestLine ELSE @
                IN  IF c > 0 THEN 0 ELSE c
           ELSE LET half == GoDiv(t.longestLine - t.width, 2)
                IN  IF half > 0
                    THEN LET c == IF @ > half THEN half ELSE @
                         IN  IF c < -half THEN -half ELSE c
                    ELSE 0]

\* Draw, part_001:823-828: index[lineOffset] out of range is a run-time panic.
DrawPurge(t) ==
    IF ~t.scrollable /\ t.lineOffset > 0
    THEN IF t.lineOffset >= Len(t.index) THEN [t EXCEPT !.fault = "panic"]
         ELSE [t EXCEPT !.buffer = Slice(t.buffer,
                                         t.index[t.lineOffset + 1].Line + 1,
                                         Len(t.buffer)),
                        !.index = <<>>]
    ELSE t

\* Draw after the re-index, part_001:647-828.
DrawIndexed(t) ==
    IF t.fault # "none" \/ t.index = <<>> THEN t
    ELSE DrawPurge(DrawAdjustColumnOffset(DrawAdjustLineOffset(
             DrawMoveToHighlights(t))))

\* Draw between Lock and Unlock, part_001:632-828.
DrawBody(t) == DrawIndexed(DrawReindex(t))

\* The keys the input handler tells apart (part_001:838-890).
DoneKeys == {"Escape", "Enter", "Tab", "Backtab"}
HomeKeys == {"g", "Home"}
EndKeys == {"G", "End"}
DownKeys == {"j", "Down"}
UpKeys == {"k", "Up"}
LeftKeys == {"h", "Left"}
RightKeys == {"l", "Right"}
PageDownKeys == {"PgDn", "CtrlF"}
PageUpKeys == {"PgUp", "CtrlB"}
Keys == DoneKeys \cup HomeKeys \cup EndKeys \cup DownKeys \cup UpKeys
        \cup LeftKeys \cup RightKeys \cup PageDownKeys \cup PageUpKeys

\* A faulty input handler: a page is the height the view has now.
InputHandlerBodyByHeight(t, key) ==
    IF key \in DoneKeys \/ ~t.scrollable THEN t
    ELSE IF key \in HomeKeys
    THEN [t EXCEPT !.trackEnd = FALSE, !.lineOffset = 0, !.columnOffset = 0]
    ELSE IF key \in EndKeys
    THEN [t EXCEPT !.trackEnd = TRUE, !.columnOffset = 0]
    ELSE IF key \in DownKeys THEN [t EXCEPT !.lineOffset = @ + 1]
    ELSE IF key \in UpKeys
    THEN [t EXCEPT !.trackEnd = FALSE, !.lineOffset = @ - 1]
    ELSE IF key \in LeftKeys THEN [t EXCEPT !.columnOffset = @ - 1]
    ELSE IF key \in RightKeys THEN [t EXCEPT !.columnOffset = @ + 1]
    ELSE IF key \in PageDownKeys THEN [t EXCEPT !.lineOffset = @ + t.height]
    ELSE IF key \in PageUpKeys
    THEN [t EXCEPT !.trackEnd = FALSE, !.lineOffset = @ - t.height]
    ELSE t

\* The input handler without the test of t.scrollable.
InputHandlerBodyScrolls(t, key) ==
    IF key \in DoneKeys THEN t
    ELSE IF key \in HomeKeys
    THEN [t EXCEPT !.trackEnd = FALSE, !.lineOffset = 0, !.columnOffset = 0]
    ELSE IF key \in EndKeys
    THEN [t EXCEPT !.trackEnd = TRUE, !.columnOffset = 0]
    ELSE IF key \in DownKeys THEN [t EXCEPT !.lineOffset = @ + 1]
    ELSE IF key \in UpKeys
    THEN [t EXCEPT !.trackEnd = FALSE, !.lineOffset = @ - 1]
    ELSE IF key \in LeftKeys THEN [t EXCEPT !.columnOffset = @ - 1]
    ELSE IF key \in RightKeys THEN [t EXCEPT !.columnOffset = @ + 1]
    ELSE IF key \in PageDownKeys THEN [t EXCEPT !.lineOffset = @ + t.pageSize]
    ELSE IF key \in PageUpKeys
    THEN [t EXCEPT !.trackEnd = FALSE, !.lineOffset = @ - t.pageSize]
    ELSE t

\* The input handler, part_001:833-893, for a key event.
InputHandlerBody(t, key) ==
    IF key \in DoneKeys \/ ~t.scrollable THEN t
    ELSE IF key \in HomeKeys
    THEN [t EXCEPT !.trackEnd = FALSE, !.lineOffset = 0, !.columnOffset = 0]
    ELSE IF key \in EndKeys
    THEN [t EXCEPT !.trackEnd = TRUE, !.columnOffset = 0]
    ELSE IF key \in DownKeys THEN [t EXCEPT !.lineOffset = @ + 1]
    ELSE IF key \in UpKeys
    THEN [t EXCEPT !.trackEnd = FALSE, !.lineOffset = @ - 1]
    ELSE IF key \in LeftKeys THEN [t EXCEPT !.columnOffset = @ - 1]
    ELSE IF key \in RightKeys THEN [t EXCEPT !.columnOffset = @ + 1]
    ELSE IF key \in PageDownKeys THEN [t EXCEPT !.lineOffset = @ + t.pageSize]
    ELSE IF key \in PageUpKeys
    THEN [t EXCEPT !.trackEnd = FALSE, !.lineOffset = @ - t.pageSize]
    ELSE t

\* GetRegionText, part_001:374-400: the scan of the line str from byte pos
\* on (0-based).  st holds the text collected (buf), currentRegionID (cur),
\* currentTag, currentRegion and whether the function has returned (done).
\* The bytes of a character are copied one by one, as WriteRune copies them.
RECURSIVE RegionScanLine(_, _, _, _, _, _, _)
RegionScanLine(str, ctags, rtags, rids, regionID, pos, st) ==
    IF st.done \/ pos >= Len(str) THEN st
    ELSE IF /\ st.currentTag < Len(ctags)
            /\ pos >= ctags[st.currentTag + 1].s
            /\ pos < ctags[st.currentTag + 1].e
    THEN RegionScanLine(str, ctags, rtags, rids, regionID, pos + 1,
             IF pos = ctags[st.currentTag + 1].e - 1
             THEN [st EXCEPT !.currentTag = @ + 1] ELSE st)
    ELSE IF /\ st.currentRegion < Len(rtags)
            /\ pos >= rtags[st.currentRegion + 1].s
            /\ pos < rtags[st.currentRegion + 1].e
    THEN RegionScanLine(str, ctags, rtags, rids, regionID, pos + 1,
             IF pos = rtags[st.currentRegion + 1].e - 1
             THEN IF st.cur = regionID THEN [st EXCEPT !.done = TRUE]
                  ELSE [st EXCEPT !.cur = rids[st.currentRegion + 1],
                                  !.currentRegion = @ + 1]
             ELSE st)
    ELSE RegionScanLine(str, ctags, rtags, rids, regionID, pos + 1,
             IF st.cur = regionID THEN [st EXCEPT !.buf = Append(@, str[pos + 1])]
             ELSE st)

\* part_001:355-400 for the line str and its region tags rtags.
RegionScanTagged(t, str, rtags, regionID, st) ==
    RegionScanLine(str, FindTags(t.dynamicColors, "color", str), rtags,
                   Payloads("region", str, rtags), regionID, 0, st)

\* A line end that adds no line feed.
RegionEndLineNoFeed(st, regionID) ==
    IF st.done THEN st
    ELSE [st EXCEPT !.currentTag = 0, !.currentRegion = 0]

\* part_001:402-405: the line feed after a line that ends inside the region,
\* unless the function returned within the line (388); currentTag and
\* currentRegion start at 0 in the next line (372).
RegionEndLine(st, regionID) ==
    IF st.done THEN st
    ELSE [st EXCEPT !.buf = IF st.cur = regionID THEN Append(@, "\n") ELSE @,
                    !.currentTag = 0, !.currentRegion = 0]

\* The loop over the buffer, part_001:355-406, from line k (1-based) on;
\* after is the state the scan of line k - 1 left.
RECURSIVE RegionScanFrom(_, _, _, _)
RegionScanFrom(t, regionID, k, after) ==
    IF after.done \/ k > Len(t.buffer) THEN after
    ELSE RegionScanFrom(t, regionID, k + 1,
             RegionEndLine(
                 RegionScanTagged(t, t.buffer[k],
                                  FindTags(t.regions, "region", t.buffer[k]),
                                  regionID, after),
                 regionID))

\* part_001:388 and 408: a return inside the loop gives the text as it was
\* collected; the return after the loop replaces the escaped tags in it.
RegionResult(st) ==
    IF st.done THEN st.buf
    ELSE ReplaceEscapes(st.buf, FindAll("escape", st.buf))

\* A GetRegionText without the check of part_001:346.
GetRegionTextBodyUnguarded(t, regionID) ==
    RegionResult(RegionScanFrom(t, regionID, 1,
        [buf |-> <<>>, cur |-> <<>>, currentTag |-> 0,
         currentRegion |-> 0, done |-> FALSE]))

\* GetRegionText(regionID), part_001:345-409.
GetRegionTextBody(t, regionID) ==
    IF ~t.regions \/ regionID = <<>> THEN <<>>
    ELSE RegionResult(RegionScanFrom(t, regionID, 1,
             [buf |-> <<>>, cur |-> <<>>, currentTag |-> 0,
              currentRegion |-> 0, done |-> FALSE]))

----------------------------------------------------------------------------
(* The state after NewTextView (part_001:160-171, box.go:72-84) and the    *)
(* calls of one goroutine, each a single step.                             *)

\* NewBox: width and height of a new box (box.go:75-76).
NewBoxWidth == 15
NewBoxHeight == 10

\* The goroutines: one streams text into the view, one is the render loop,
\* one delivers key events and the application's other calls.
Threads == {"producer", "render", "input"}

\* The record of a call, before its fields are filled in.
NoCall ==
    [op |-> "none", p |-> <<>>, key |-> "none", buffer |-> <<>>,
     recentBytes |-> <<>>, newBytes |-> <<>>, committed |-> FALSE, n |-> 0,
     err |-> "nil", handler |-> "nil", notified |-> FALSE, held |-> "none",
     by |-> "none", dynamicColors |-> FALSE, regions |-> FALSE,
     text |-> <<>>]

\* The record of a call named op made now.
Call(op) ==
    [NoCall EXCEPT !.op = op, !.buffer = buffer, !.recentBytes = recentBytes,
                   !.handler = changed, !.held = mutex,
                   !.dynamicColors = dynamicColors, !.regions = regions]

NewTextView ==
    /\ buffer = <<>>
    /\ recentBytes = <<>>
    /\ index = <<>>
    /\ align = "left"
    /\ fromHighlight = 0
    /\ toHighlight = 0
    /\ highlights = {}
    /\ lastWidth = 0
    /\ longestLine = 0
    /\ lineOffset = -1
    /\ trackEnd = FALSE
    /\ columnOffset = 0
    /\ pageSize = 0
    /\ scrollable = TRUE
    /\ wrap = TRUE
    /\ wordWrap = FALSE
    /\ textColor = "white"
    /\ dynamicColors = FALSE
    /\ regions = FALSE
    /\ scrollToHighlights = FALSE
    /\ changed = "nil"
    /\ width = NewBoxWidth
    /\ height = NewBoxHeight

\* NewPages, pages.go:41-47.
NewPages ==
    /\ pages = <<>>
    /\ curr = <<>>

\* Names a page is added or asked for under.
PageNames == {"a", "b", "c"}

\* The goroutines that call into the Pages: one switches pages, one is the
\* render loop.
Callers == {"switcher", "render"}

\* A sync.RWMutex nobody holds.
Unlocked == [writer |-> "none", readers |-> {}]

\* A goroutine that is in no call of the Pages.
Idle == [pc |-> "idle", k |-> 0, name |-> ""]

\* The locks of a new Pages and of new pages (the zero value of
\* sync.RWMutex, box.go:19 and pages.go:11), and no call in progress.
NoLocks ==
    /\ boxLock = Unlocked
    /\ pageLock = [n \in PageNames |-> Unlocked]
    /\ routine = [g \in Callers |-> Idle]

Init ==
    /\ NewTextView
    /\ NewPages
    /\ NoLocks
    /\ mutex = "none"
    /\ stack = [th \in Threads |-> <<>>]
    /\ fault = "none"
    /\ written = <<>>
    /\ last = NoCall

\* What a handler of kind h, called at the end of Write, does to the view:
\* a handler of kind "draw" draws it at once.
ChangedBody(t, h) == IF h = "draw" THEN DrawBody(t) ELSE t

\* The record of a Write(p) that computed r.
WriteCall(p, r) ==
    [Call("Write") EXCEPT !.p = p, !.newBytes = r.newBytes,
                          !.committed = r.committed, !.n = r.n, !.err = r.err,
                          !.notified = changed # "nil"]

\* Write(p) from call to return, the deferred t.changed() included
\* (part_001:414-472).
Write(p) ==
    /\ fault = "none"
    /\ Install(ChangedBody(WriteBody(View, p), changed))
    /\ last' = WriteCall(p, WriteResult(recentBytes, p, dynamicColors, regions))
    /\ written' = written \o p
    /\ UNCHANGED <<container, changed, threads>>

\* SetDynamicColors, part_001:227-233.
SetDynamicColors(dynamic) ==
    /\ fault = "none"
    /\ index' = IF dynamicColors # dynamic THEN <<>> ELSE index
    /\ dynamicColors' = dynamic
    /\ UNCHANGED <<container, content, fromHighlight, toHighlight, lastWidth, longestLine,
                   viewport, align, highlights, scrollable, wrap, wordWrap,
                   textColor, regions, changed, rect, threads, fault, written, last>>

\* SetRegions, part_001:237-243.
SetRegions(enable) ==
    /\ fault = "none"
    /\ index' = IF regions # enable THEN <<>> ELSE index
    /\ regions' = enable
    /\ UNCHANGED <<container, content, fromHighlight, toHighlight, lastWidth, longestLine,
                   viewport, align, highlights, scrollable, wrap, wordWrap,
                   textColor, dynamicColors, changed, rect, threads, fault,
                   written, last>>

\* SetWrap, part_001:186-192.
SetWrap(enable) ==
    /\ fault = "none"
    /\ index' = IF wrap # enable THEN <<>> ELSE index
    /\ wrap' = enable
    /\ UNCHANGED <<container, content, fromHighlight, toHighlight, lastWidth, longestLine,
                   viewport, align, highlights, scrollable, wordWrap,
                   textColor, dynamicColors, regions, changed, rect, threads,
                   fault, written, last>>

\* SetWordWrap, part_001:199-205.
SetWordWrap(wrapOnWords) ==
    /\ fault = "none"
    /\ index' = IF wordWrap # wrapOnWords THEN <<>> ELSE index
    /\ wordWrap' = wrapOnWords
    /\ UNCHANGED <<container, content, fromHighlight, toHighlight, lastWidth, longestLine,
                   viewport, align, highlights, scrollable, wrap, textColor,
                   dynamicColors, regions, changed, rect, threads, fault,
                   written, last>>

\* Box.SetRect, box.go:136-144.  The box has no border and no padding
\* (box.go:72-84), so that GetInnerRect (box.go:118-133) returns the width
\* and the height set here.
SetRect(w, h) ==
    /\ fault = "none"
    /\ width' = w
    /\ height' = h
    /\ UNCHANGED <<container, content, derived, viewport, config, changed, threads,
                   fault, written, last>>

\* Draw from call to return, part_001:629-829.
Draw ==
    /\ fault = "none"
    /\ Install(DrawBody(View))
    /\ last' = Call("Draw")
    /\ UNCHANGED <<container, changed, threads, written>>

\* SetScrollable, part_001:175-181.
SetScrollableBody(t, enable) ==
    [t EXCEPT !.scrollable = enable,
              !.trackEnd = IF ~enable THEN TRUE ELSE @]

\* SetTextAlign, part_001:209-215.
SetTextAlignBody(t, a) ==
    [t EXCEPT !.index = IF t.align # a THEN <<>> ELSE @, !.align = a]

\* SetTextColor, part_001:220-223: the index stays as it is.
SetTextColorBody(t, color) == [t EXCEPT !.textColor = color]

\* ScrollToBeginning, part_001:263-271.
ScrollToBeginningBody(t) ==
    IF ~t.scrollable THEN t
    ELSE [t EXCEPT !.trackEnd = FALSE, !.lineOffset = 0, !.columnOffset = 0]

\* ScrollToEnd, part_001:276-283.
ScrollToEndBody(t) ==
    IF ~t.scrollable THEN t
    ELSE [t EXCEPT !.trackEnd = TRUE, !.columnOffset = 0]

\* Highlight, part_001:301-311: the empty id is ignored.
HighlightBody(t, regionIDs) ==
    [t EXCEPT !.highlights = regionIDs \ {<<>>}, !.index = <<>>]

\* ScrollToHighlight, part_001:329-337.
ScrollToHighlightBody(t) ==
    IF t.highlights = {} \/ ~t.scrollable \/ ~t.regions THEN t
    ELSE [t EXCEPT !.index = <<>>, !.scrollToHighlights = TRUE,
                   !.trackEnd = FALSE]

SetScrollable(enable) ==
    /\ fault = "none"
    /\ Install(SetScrollableBody(View, enable))
    /\ UNCHANGED <<container, changed, threads, written, last>>

SetTextAlign(a) ==
    /\ fault = "none"
    /\ Install(SetTextAlignBody(View, a))
    /\ UNCHANGED <<container, changed, threads, written, last>>

SetTextColor(color) ==
    /\ fault = "none"
    /\ Install(SetTextColorBody(View, color))
    /\ UNCHANGED <<container, changed, threads, written, last>>

ScrollToBeginning ==
    /\ fault = "none"
    /\ Install(ScrollToBeginningBody(View))
    /\ UNCHANGED <<container, changed, threads, written, last>>

ScrollToEnd ==
    /\ fault = "none"
    /\ Install(ScrollToEndBody(View))
    /\ UNCHANGED <<container, changed, threads, written, last>>

Highlight(regionIDs) ==
    /\ fault = "none"
    /\ Install(HighlightBody(View, regionIDs))
    /\ UNCHANGED <<container, changed, threads, written, last>>

ScrollToHighlight ==
    /\ fault = "none"
    /\ Install(ScrollToHighlightBody(View))
    /\ UNCHANGED <<container, changed, threads, written, last>>

\* The input handler called with a key event, from call to return
\* (part_001:832-894).
InputHandler(key) ==
    /\ fault = "none"
    /\ Install(InputHandlerBody(View, key))
    /\ last' = Call("Key")
    /\ UNCHANGED <<container, changed, threads, written>>

----------------------------------------------------------------------------
(* Stream ingest: one goroutine writes every byte string of at most        *)
(* MaxWriteLen bytes over WriteAlphabet and switches the tag features.     *)

WriteAlphabet == {"a", "\t", "\n", "\r", "[", "\"", "xC3", "xA9"}

WriteInputs == SeqsUpTo(WriteAlphabet, MaxWriteLen)

\* A Write of the stream of SpecWrite.
WriteBytes(p) == Len(written) + Len(p) <= MaxStream /\ Write(p)

NextWrite ==
    \/ \E p \in WriteInputs : WriteBytes(p)
    \/ \E b \in BOOLEAN : SetDynamicColors(b)
    \/ \E b \in BOOLEAN : SetRegions(b)

SpecWrite == Init /\ [][NextWrite]_vars

----------------------------------------------------------------------------
(* The line index: one goroutine writes text token by token, switches the  *)
(* wrapping and tag features, resizes the view and draws it.               *)

\* Longest stream written in one behaviour of SpecIndex, in bytes.
MaxLine == 5
\* Widest and highest rectangle the view is given.
MaxWidth == 2
MaxHeight == 1

\* What one Write brings: a word and a space, a color tag, or U+4E16, which
\* is two columns wide.
IndexInputs ==
    {<<"a", " ">>, <<"[", "r", "]">>, <<"xE4", "xB8", "x96">>}

\* A Write of the stream of SpecIndex.
WriteToken(p) == Len(written) + Len(p) <= MaxLine /\ Write(p)

NextIndex ==
    \/ \E p \in IndexInputs : WriteToken(p)
    \/ \E b \in BOOLEAN : SetWrap(b)
    \/ \E b \in BOOLEAN : SetWordWrap(b)
    \/ \E b \in BOOLEAN : SetDynamicColors(b)
    \/ \E b \in BOOLEAN : SetRegions(b)
    \/ \E w \in 0..MaxWidth, h \in 1..MaxHeight : SetRect(w, h)
    \/ Draw

SpecIndex == Init /\ [][NextIndex]_vars

----------------------------------------------------------------------------
(* Word wrapping: one goroutine writes prose word by word, switches        *)
(* word-wrap, resizes the view and draws it.  The tag features stay off.   *)

\* Longest stream written in one behaviour of SpecWrap, in bytes: the length
\* of "hello wonderful world".
MaxProse == 21

\* The widths the view is given.
WrapWidths == {5, 10}

\* What one Write brings: a word, with or without the space after it, or the
\* end of a sentence and of its line.
WrapInputs ==
    {<<"h", "e", "l", "l", "o", " ">>,
     <<"w", "o", "n", "d", "e", "r", "f", "u", "l", " ">>,
     <<"w", "o", "r", "l", "d">>,
     <<"a", ".", " ", " ", "\n">>}

\* A Write of the stream of SpecWrap.
WriteWord(p) == Len(written) + Len(p) <= MaxProse /\ Write(p)

NextWrap ==
    \/ \E p \in WrapInputs : WriteWord(p)
    \/ \E b \in BOOLEAN : SetWordWrap(b)
    \/ \E w \in WrapWidths : SetRect(w, NewBoxHeight)
    \/ Draw

SpecWrap == Init /\ [][NextWrap]_vars

----------------------------------------------------------------------------
(* Vertical scrolling: one goroutine appends lines, delivers the keys that *)
(* move the view up and down, switches scrolling on and off, changes the   *)
(* height of the view and draws it.                                        *)

\* The most lines written in one behaviour of SpecScroll.
MaxLines == 4
\* The highest rectangle the view is given in SpecScroll.
MaxRows == 2
\* How far from the top the keys may take the line offset between two draws.
MaxScroll == 1

\* What the Writes bring: the lines of a log, "a" and "b" in turn.
ScrollInputs == <<(<<"a", "\n">>), (<<"b", "\n">>)>>

\* The line the next Write brings.
NextLine == ScrollInputs[((Len(written) \div 2) % 2) + 1]

\* One key of each kind that moves the view up or down, and one that does
\* not scroll.
ScrollKeys == {"g", "G", "j", "k", "PgDn", "PgUp", "Enter"}

\* A Write of the stream of SpecScroll.
WriteLine == Len(written) < MaxLines * 2 /\ Write(NextLine)

\* A key event of SpecScroll.
Scroll(key) == lineOffset \in -MaxScroll..MaxScroll /\ InputHandler(key)

NextScroll ==
    \/ WriteLine
    \/ \E key \in ScrollKeys : Scroll(key)
    \/ \E b \in BOOLEAN : SetScrollable(b)
    \/ ScrollToBeginning
    \/ ScrollToEnd
    \/ \E h \in 0..MaxRows : SetRect(NewBoxWidth, h)
    \/ Draw

SpecScroll == Init /\ [][NextScroll]_vars

----------------------------------------------------------------------------
(* Horizontal scrolling: one goroutine writes lines of several lengths,    *)
(* delivers the keys that move the view left and right, changes the        *)
(* alignment, the wrapping and the width of the view and draws it.         *)

\* Longest stream written in one behaviour of SpecColumns, in bytes.
MaxText == 5
\* The widest rectangle the view is given in SpecColumns.
MaxColumns == 2
\* How far the keys may take the column offset between two draws.
MaxShift == 2

\* What one Write brings: three columns of text, or the end of a line.
ColumnInputs == {<<"a", "a", "a">>, <<"\n">>}

\* The keys that move the view left and right, and one that resets the
\* column offset.
ColumnKeys == {"h", "l", "g"}

\* The alignments (AlignLeft, AlignCenter, AlignRight).
Alignments == {"left", "center", "right"}

\* A Write of the stream of SpecColumns.
WriteText(p) == Len(written) + Len(p) <= MaxText /\ Write(p)

\* A key event of SpecColumns.
Shift(key) == columnOffset \in -MaxShift..MaxShift /\ InputHandler(key)

NextColumns ==
    \/ \E p \in ColumnInputs : WriteText(p)
    \/ \E key \in ColumnKeys : Shift(key)
    \/ \E a \in Alignments : SetTextAlign(a)
    \/ \E b \in BOOLEAN : SetWrap(b)
    \/ \E w \in 1..MaxColumns : SetRect(w, NewBoxHeight)
    \/ Draw

SpecColumns == Init /\ [][NextColumns]_vars

----------------------------------------------------------------------------
(* Highlights: one goroutine writes lines with region tags, enables        *)
(* regions, highlights region "a", asks for the highlight to be scrolled   *)
(* to, delivers keys, changes the height of the view and draws it.         *)

\* The id of the region the model highlights.
RegionA == <<"a">>

\* What the Writes bring, in turn: a line outside any region, two lines that
\* each open region "a", and a line that closes it.
HighlightInputs ==
    <<(<<"x", "\n">>),
      (<<"[", "\"", "a", "\"", "]", "y", "\n">>),
      (<<"[", "\"", "a", "\"", "]", "y", "\n">>),
      (<<"[", "\"", "\"", "]", "z", "\n">>)>>

\* The number of line feeds written so far.
LinesWritten == Cardinality({i \in 1..Len(written) : written[i] = "\n"})

\* A Write of the stream of SpecHighlight.
WriteRegionLine ==
    /\ LinesWritten < MaxLines
    /\ Write(HighlightInputs[(LinesWritten % Len(HighlightInputs)) + 1])

\* The keys delivered in SpecHighlight: home, end, line down, line up and
\* page down.
HighlightKeys == {"g", "G", "j", "k", "PgDn"}

\* A key event of SpecHighlight.
Navigate(key) == lineOffset \in -MaxScroll..MaxScroll /\ InputHandler(key)

NextHighlight ==
    \/ WriteRegionLine
    \/ SetRegions(TRUE)
    \/ Highlight({RegionA})
    \/ ScrollToHighlight
    \/ \E key \in HighlightKeys : Navigate(key)
    \/ \E h \in 1..MaxRows : SetRect(NewBoxWidth, h)
    \/ Draw

SpecHighlight == Init /\ [][NextHighlight]_vars

----------------------------------------------------------------------------
(* Write, Draw, Clear and the input handler called from several goroutines. *)
(* A call in progress is a frame on its goroutine's stack; what runs        *)
(* between Lock and Unlock is split where the code can be interleaved with  *)
(* the calls that take no lock.                                             *)

\* Largest distance from 0 the key events move the line offset to.
MaxOffset == 1
\* Largest number of Write calls of the producer.
MaxWrites == 2

\* A faulty WriteDeferred: the handler is deferred after the Unlock, and so
\* runs before it.
WriteDeferredLocked(handler) ==
    IF handler # "nil" THEN <<"changed", "Unlock">> ELSE <<"Unlock">>

\* The deferred calls of Write in the order they run at its return, last
\* registered first (part_001:416-421), for the handler t.changed holds at
\* line 416.
WriteDeferred(handler) ==
    IF handler # "nil" THEN <<"Unlock", "changed">> ELSE <<"Unlock">>

\* The deferred call of Draw (part_001:631).
DrawDeferred == <<"Unlock">>

Frame(op, p, handler, deferred) ==
    [op |-> op, pc |-> "lock", p |-> p, handler |-> handler,
     deferred |-> deferred, notified |-> FALSE, held |-> "none"]

Top(th) == stack[th][Len(stack[th])]

Running(th, op, pc) ==
    /\ fault = "none"
    /\ stack[th] # <<>>
    /\ Top(th).op = op
    /\ Top(th).pc = pc

Push(th, f) == stack' = [stack EXCEPT ![th] = Append(@, f)]

Pop(th) == stack' = [stack EXCEPT ![th] = SubSeq(@, 1, Len(@) - 1)]

SetTop(th, f) == stack' = [stack EXCEPT ![th][Len(stack[th])] = f]

\* The bytes one Write of the producer brings: a line of text.
ProducerInputs == {<<"a", "\n">>}

\* The keys the input goroutine delivers.
InputKeys == {"Enter", "Down", "k"}

\* Write is called: line 416-418 registers the handler, if there is one.
CallWrite(th, p) ==
    /\ fault = "none"
    /\ stack[th] = <<>>
    /\ Len(written) < MaxWrites * Len(p)
    /\ Push(th, Frame("Write", p, changed, WriteDeferred(changed)))
    /\ written' = written \o p
    /\ UNCHANGED <<container, content, derived, viewport, config, changed, rect, mutex,
                   fault, last>>

\* Draw is called by the render loop.
CallDraw(th) ==
    /\ fault = "none"
    /\ stack[th] = <<>>
    /\ Push(th, Frame("Draw", <<>>, "nil", DrawDeferred))
    /\ UNCHANGED <<container, content, derived, viewport, config, changed, rect, mutex,
                   fault, written, last>>

\* A lock that does not wait.
LockAnyway(th) ==
    /\ fault = "none"
    /\ stack[th] # <<>>
    /\ Top(th).pc = "lock"
    /\ mutex' = th
    /\ SetTop(th, [Top(th) EXCEPT
                     !.pc = IF Top(th).op = "Write" THEN "body" ELSE "reindex"])
    /\ UNCHANGED <<container, content, derived, viewport, config, changed, rect, fault,
                   written, last>>

\* t.Lock() (part_001:420, 630): blocks while the mutex is held, by whomever.
Lock(th) ==
    /\ fault = "none"
    /\ stack[th] # <<>>
    /\ Top(th).pc = "lock"
    /\ mutex = "none"
    /\ mutex' = th
    /\ SetTop(th, [Top(th) EXCEPT
                     !.pc = IF Top(th).op = "Write" THEN "body" ELSE "reindex"])
    /\ UNCHANGED <<container, content, derived, viewport, config, changed, rect, fault,
                   written, last>>

\* Write between Lock and the return statement (part_001:423-471).
WriteLocked(th) ==
    /\ Running(th, "Write", "body")
    /\ Install(WriteBody(View, Top(th).p))
    /\ SetTop(th, [Top(th) EXCEPT !.pc = "deferred", !.held = mutex])
    /\ UNCHANGED <<container, changed, mutex, written, last>>

\* Draw from Lock to the re-index (part_001:632-645).
DrawReindexLocked(th) ==
    /\ Running(th, "Draw", "reindex")
    /\ Install(DrawReindex(View))
    /\ SetTop(th, [Top(th) EXCEPT !.pc = "adjust", !.held = mutex])
    /\ UNCHANGED <<container, changed, mutex, written, last>>

\* Draw from the re-index to its end (part_001:647-828).
DrawIndexedLocked(th) ==
    /\ Running(th, "Draw", "adjust")
    /\ Install(DrawIndexed(View))
    /\ SetTop(th, [Top(th) EXCEPT !.pc = "deferred"])
    /\ UNCHANGED <<container, changed, mutex, written, last>>

\* The deferred t.Unlock() runs.
RunUnlock(th) ==
    /\ fault = "none"
    /\ stack[th] # <<>>
    /\ Top(th).pc = "deferred"
    /\ Top(th).deferred # <<>>
    /\ Head(Top(th).deferred) = "Unlock"
    /\ mutex' = "none"
    /\ SetTop(th, [Top(th) EXCEPT !.deferred = Tail(@)])
    /\ UNCHANGED <<container, content, derived, viewport, config, changed, rect, fault,
                   written, last>>

\* What a handler of kind "write" writes.
HandlerInput == <<"a", "\n">>

\* The call a handler makes when it runs: a handler of kind "notify" makes
\* none, one of kind "draw" calls Draw, one of kind "write" calls Write
\* unless enough was written.
HandlerCall(handler) ==
    IF handler = "draw" THEN <<Frame("Draw", <<>>, "nil", DrawDeferred)>>
    ELSE IF handler = "write" /\ Len(written) < MaxWrites * Len(HandlerInput)
    THEN <<Frame("Write", HandlerInput, changed, WriteDeferred(changed))>>
    ELSE <<>>

\* The deferred t.changed() runs and makes its call on the spot.
RunChanged(th) ==
    /\ Running(th, "Write", "deferred")
    /\ Top(th).deferred # <<>>
    /\ Head(Top(th).deferred) = "changed"
    /\ stack' = [stack EXCEPT ![th] =
                    SubSeq(@, 1, Len(@) - 1)
                    \o <<[Top(th) EXCEPT !.deferred = Tail(@),
                                         !.notified = TRUE]>>
                    \o HandlerCall(Top(th).handler)]
    /\ written' = IF /\ HandlerCall(Top(th).handler) # <<>>
                     /\ Top(th).handler = "write"
                  THEN written \o HandlerInput ELSE written
    /\ last' = [NoCall EXCEPT !.op = "changed", !.by = th, !.held = mutex,
                              !.handler = Top(th).handler]
    /\ UNCHANGED <<container, content, derived, viewport, config, changed, rect, mutex,
                   fault>>

\* Write or Draw returns once its deferred calls have run.
Return(th) ==
    /\ fault = "none"
    /\ stack[th] # <<>>
    /\ Top(th).pc = "deferred"
    /\ Top(th).deferred = <<>>
    /\ Pop(th)
    /\ last' = [NoCall EXCEPT !.op = Top(th).op, !.by = th,
                              !.handler = Top(th).handler,
                              !.notified = Top(th).notified,
                              !.held = Top(th).held]
    /\ UNCHANGED <<container, content, derived, viewport, config, changed, rect, mutex,
                   fault, written>>

\* The input handler gets a key event (part_001:832-894); it takes no lock.
Key(th, key) ==
    /\ fault = "none"
    /\ stack[th] = <<>>
    /\ LET t == InputHandlerBody(View, key)
       IN  /\ t.lineOffset \in -MaxOffset..MaxOffset
           /\ Install(t)
    /\ last' = [NoCall EXCEPT !.op = "Key", !.by = th, !.held = mutex]
    /\ UNCHANGED <<container, changed, threads, written>>

\* Clear (part_001:286-291); it takes no lock and calls no handler.
Clear(th) ==
    /\ fault = "none"
    /\ stack[th] = <<>>
    /\ Install(ClearBody(View))
    /\ last' = [NoCall EXCEPT !.op = "Clear", !.by = th, !.handler = changed]
    /\ UNCHANGED <<container, changed, threads, written>>

\* SetChangedFunc, part_001:248-251.
SetChangedFunc(th, handler) ==
    /\ fault = "none"
    /\ stack[th] = <<>>
    /\ changed' = handler
    /\ UNCHANGED <<container, content, derived, viewport, config, rect, threads, fault,
                   written, last>>

Handlers == {"nil", "notify", "draw", "write"}

NextConc ==
    \/ \E p \in ProducerInputs : CallWrite("producer", p)
    \/ CallDraw("render")
    \/ \E th \in Threads : Lock(th)
    \/ \E th \in Threads : WriteLocked(th)
    \/ \E th \in Threads : DrawReindexLocked(th)
    \/ \E th \in Threads : DrawIndexedLocked(th)
    \/ \E th \in Threads : RunUnlock(th)
    \/ \E th \in Threads : RunChanged(th)
    \/ \E th \in Threads : Return(th)
    \/ \E key \in InputKeys : Key("input", key)
    \/ Clear("input")
    \/ \E h \in Handlers : SetChangedFunc("input", h)

SpecConc == Init /\ [][NextConc]_vars

----------------------------------------------------------------------------
(* Navigation: one goroutine switches scrolling on and off and issues      *)
(* every navigation command, on a view with a highlighted region.          *)

\* One key of each kind the input handler tells apart.
NavKeys == {"Enter", "g", "G", "j", "k", "h", "l", "PgDn", "PgUp"}

\* A Write of the stream of SpecNav: a line that opens region "a".
WriteRegion ==
    /\ LinesWritten < MaxWrites
    /\ Write(HighlightInputs[2])

\* A key event of SpecNav.
Press(key) ==
    /\ lineOffset \in -MaxOffset..MaxOffset
    /\ columnOffset \in -MaxOffset..MaxOffset
    /\ InputHandler(key)

NextNav ==
    \/ WriteRegion
    \/ SetRegions(TRUE)
    \/ Highlight({RegionA})
    \/ \E b \in BOOLEAN : SetScrollable(b)
    \/ \E key \in NavKeys : Press(key)
    \/ ScrollToBeginning
    \/ ScrollToEnd
    \/ ScrollToHighlight
    \/ Draw

SpecNav == Init /\ [][NextNav]_vars

----------------------------------------------------------------------------
(* The text of a region: marked-up text is written piece by piece, the     *)
(* two tag families are switched on and off, and GetRegionText is called.  *)

\* Longest marked-up stream written in one behaviour.
MaxMarkup == 16

\* What one Write brings: text that opens region "a", text with a color tag,
\* a line feed, text that closes the region, an escaped color tag.
MarkupInputs ==
    {<<"x", "[", "\"", "a", "\"", "]">>,
     <<"y", "[", "r", "]">>,
     <<"\n">>,
     <<"z", "[", "\"", "\"", "]">>,
     <<"[", "r", "[", "]">>}

\* The ids GetRegionText is called with: none and the region of the stream.
RegionIDs == {<<>>, RegionA}

WriteMarkup(p) ==
    /\ Len(written) + Len(p) <= MaxMarkup
    /\ Write(p)

\* GetRegionText(regionID), part_001:345-409; it takes no lock.
GetRegionText(regionID) ==
    /\ fault = "none"
    /\ last' = [Call("GetRegionText") EXCEPT
                  !.p = regionID,
                  !.text = GetRegionTextBody(View, regionID)]
    /\ UNCHANGED <<container, content, derived, viewport, config, changed, rect, threads,
                   fault, written>>

NextRegion ==
    \/ \E p \in MarkupInputs : WriteMarkup(p)
    \/ \E on \in BOOLEAN : SetDynamicColors(on)
    \/ \E on \in BOOLEAN : SetRegions(on)
    \/ \E id \in RegionIDs : GetRegionText(id)

SpecRegion == Init /\ [][NextRegion]_vars

----------------------------------------------------------------------------
(* The index of marked-up text: text, color tags, region tags and line     *)
(* feeds are written piece by piece, the two tag families are switched on  *)
(* and off, and the view is drawn a few cells wide.                        *)

\* Longest marked-up stream written in one behaviour of SpecMarkup.
MaxTagged == 9
\* Widest rectangle the view is given in SpecMarkup.
MaxCells == 2

\* What one Write brings: a letter, a line feed, a color tag with a name
\* tcell does not know and one with a name it knows, the tag that ends a
\* region and the tag of region "a", an escaped color tag.
TaggedInputs ==
    {<<"a">>,
     <<"\n">>,
     <<"[", "r", "]">>,
     <<"[", "r", "e", "d", "]">>,
     <<"[", "\"", "\"", "]">>,
     <<"[", "\"", "a", "\"", "]">>,
     <<"[", "r", "[", "]">>}

\* The view is set up, then the text is written, then the view is drawn.
SetUpColors(on) == written = <<>> /\ SetDynamicColors(on)

SetUpRegions(on) == written = <<>> /\ SetRegions(on)

SetUpRect(w) == written = <<>> /\ SetRect(w, NewBoxHeight)

WriteTagged(p) ==
    /\ Len(written) + Len(p) <= MaxTagged
    /\ last.op # "Draw"
    /\ Write(p)

NextMarkup ==
    \/ \E on \in BOOLEAN : SetUpColors(on)
    \/ \E on \in BOOLEAN : SetUpRegions(on)
    \/ \E w \in 1..MaxCells : SetUpRect(w)
    \/ \E p \in TaggedInputs : WriteTagged(p)
    \/ Draw

SpecMarkup == Init /\ [][NextMarkup]_vars

----------------------------------------------------------------------------
(* The two tag families on and off: as SpecMarkup, with a highlight on     *)
(* region "a" set or not, and shorter text.                                *)

\* Longest marked-up stream written in one behaviour of SpecFeatures.
MaxFeatureText == 8

SetUpHighlight == written = <<>> /\ Highlight({RegionA})

WriteFeatureText(p) ==
    /\ Len(written) + Len(p) <= MaxFeatureText
    /\ last.op # "Draw"
    /\ Write(p)

NextFeatures ==
    \/ \E on \in BOOLEAN : SetUpColors(on)
    \/ \E on \in BOOLEAN : SetUpRegions(on)
    \/ SetUpHighlight
    \/ \E w \in 1..MaxCells : SetUpRect(w)
    \/ \E p \in TaggedInputs : WriteFeatureText(p)
    \/ Draw

SpecFeatures == Init /\ [][NextFeatures]_vars

----------------------------------------------------------------------------
(* A view without room: the lines of SpecScroll are written and scrolled,  *)
(* and the view is drawn one row high, with and without an inner width.    *)

\* Widest rectangle the view is given in SpecNoRoom.
MaxRoom == 1

\* The inner width is -1 for a bordered box one cell wide (box.go:123-127).
NextNoRoom ==
    \/ WriteLine
    \/ \E key \in ScrollKeys : Scroll(key)
    \/ \E w \in -1..MaxRoom : SetRect(w, 1)
    \/ Draw

SpecNoRoom == Init /\ [][NextNoRoom]_vars

----------------------------------------------------------------------------
(* One line at several widths: wrapping is set up, a line of letters,      *)
(* spaces, full stops and wide characters is written, and the view is      *)
(* drawn.                                                                  *)

\* Longest line written in one behaviour of SpecWidth, in bytes.
MaxLetters == 6
\* Widest rectangle the view is given in SpecWidth.
MaxWide == 3

\* What one Write brings: a letter, a space, a full stop, a character two
\* columns wide.
LineInputs == {<<"a">>, <<" ">>, <<".">>, <<"xE4", "xB8", "x96">>}

SetUpWrap(on) == written = <<>> /\ SetWrap(on)

SetUpWordWrap(on) == written = <<>> /\ SetWordWrap(on)

SetUpWidth(w) == written = <<>> /\ SetRect(w, NewBoxHeight)

WriteLetters(p) ==
    /\ Len(written) + Len(p) <= MaxLetters
    /\ last.op # "Draw"
    /\ Write(p)

NextWidth ==
    \/ \E on \in BOOLEAN : SetUpWrap(on)
    \/ \E on \in BOOLEAN : SetUpWordWrap(on)
    \/ \E w \in 1..MaxWide : SetUpWidth(w)
    \/ \E p \in LineInputs : WriteLetters(p)
    \/ Draw

SpecWidth == Init /\ [][NextWidth]_vars

----------------------------------------------------------------------------
(* Plain text in and out: wrapping is set up as in SpecWidth, text with    *)
(* tabs, line feeds and a tag of a family that is off is written, and the  *)
(* view is drawn.                                                          *)

\* Longest stream written in one behaviour of SpecRound, in bytes.
MaxRound == 6

\* What one Write brings: a letter and a space, a tab, a line feed, a color
\* tag, a character two columns wide.
RoundInputs ==
    {<<"a", " ">>, <<"\t">>, <<"\n">>, <<"[", "r", "]">>,
     <<"xE4", "xB8", "x96">>}

WriteRound(p) ==
    /\ Len(written) + Len(p) <= MaxRound
    /\ last.op # "Draw"
    /\ Write(p)

NextRound ==
    \/ \E on \in BOOLEAN : SetUpWrap(on)
    \/ \E on \in BOOLEAN : SetUpWordWrap(on)
    \/ \E w \in 1..MaxWide : SetUpWidth(w)
    \/ \E p \in RoundInputs : WriteRound(p)
    \/ Draw

SpecRound == Init /\ [][NextRound]_vars

----------------------------------------------------------------------------
(* The Pages container (pages.go): add, remove, show, hide and switch.     *)
(* The changed handler and the focus delegation at the end of each call    *)
(* leave the pages and p.curr alone and are not modelled.                  *)

\* The pages but the first one named name (pages.go:70-75 and 100-108).
WithoutPage(ps, name) ==
    IF \E k \in 1..Len(ps) : ps[k].Name = name
    THEN LET at == CHOOSE k \in 1..Len(ps) :
                      /\ ps[k].Name = name
                      /\ \A j \in 1..(k - 1) : ps[j].Name # name
         IN  [k \in 1..(Len(ps) - 1) |-> IF k < at THEN ps[k] ELSE ps[k + 1]]
    ELSE ps

\* The pages with the first one named name made visible or not
\* (pages.go:154-162 and 175-183).
WithVisible(ps, name, visible) ==
    [k \in 1..Len(ps) |->
        IF ps[k].Name = name /\ \A j \in 1..(k - 1) : ps[j].Name # name
        THEN [ps[k] EXCEPT !.Visible = visible]
        ELSE ps[k]]

\* What the other actions leave alone when a Pages method runs.
PagesOnly(op, name) ==
    /\ last' = [Call(op) EXCEPT !.p = name]
    /\ UNCHANGED <<content, derived, viewport, config, changed, rect, threads,
                   fault, written, locking>>

\* AddPage, pages.go:66-84.
AddPage(name, visible) ==
    /\ pages' = Append(WithoutPage(pages, name),
                       [Name |-> name, Visible |-> visible])
    /\ UNCHANGED curr
    /\ PagesOnly("AddPage", name)

\* RemovePage, pages.go:95-113.
RemovePage(name) ==
    /\ pages' = WithoutPage(pages, name)
    /\ UNCHANGED curr
    /\ PagesOnly("RemovePage", name)

\* ShowPage, pages.go:150-170.
ShowPage(name) ==
    /\ pages' = WithVisible(pages, name, TRUE)
    /\ curr' = IF \E k \in 1..Len(pages) : pages[k].Name = name
               THEN <<name>> ELSE curr
    /\ PagesOnly("ShowPage", name)

\* HidePage, pages.go:173-191.
HidePage(name) ==
    /\ pages' = WithVisible(pages, name, FALSE)
    /\ UNCHANGED curr
    /\ PagesOnly("HidePage", name)

\* SwitchToPage, pages.go:285-332: a switch to the page p.curr points to
\* refreshes its item and returns (293-296).
SwitchToPage(name) ==
    IF curr # <<>> /\ curr[1] = name
    THEN /\ UNCHANGED container
         /\ PagesOnly("SwitchToPage", name)
    ELSE /\ pages' = [k \in 1..Len(pages) |->
                         [pages[k] EXCEPT !.Visible = (pages[k].Name = name)]]
         /\ curr' = IF \E k \in 1..Len(pages) : pages[k].Name = name
                    THEN <<name>> ELSE curr
         /\ PagesOnly("SwitchToPage", name)

NextPages ==
    \/ \E name \in PageNames, visible \in BOOLEAN : AddPage(name, visible)
    \/ \E name \in PageNames : RemovePage(name)
    \/ \E name \in PageNames : ShowPage(name)
    \/ \E name \in PageNames : HidePage(name)
    \/ \E name \in PageNames : SwitchToPage(name)

SpecPages == Init /\ [][NextPages]_vars

----------------------------------------------------------------------------
(* SwitchToPage and Draw of the Pages in two goroutines, one lock          *)
(* operation a step.  sync.RWMutex: Lock waits until no goroutine holds    *)
(* the lock, RLock waits while a goroutine holds it for writing or is      *)
(* waiting in Lock.  No page's item has the focus, so SwitchToPage does    *)
(* not call Focus (pages.go:327-329).                                      *)

\* Most pages added in one behaviour of SpecLocks.
MaxPages == 2

\* What a step of a call of the Pages leaves alone.
LockStep ==
    UNCHANGED <<content, derived, viewport, config, changed, rect, threads,
                fault, written, last>>

\* The page the loop of goroutine g is at.
PageAt(g) == pages[routine[g].k]

\* sync.RWMutex.Lock returns at once.
CanLock(m) == m.writer = "none" /\ m.readers = {}

\* A goroutine is waiting in p.Lock (pages.go:307).
LockPending == \E g \in Callers : routine[g].pc = "container"

\* sync.RWMutex.RLock returns at once.
CanRLock(m, pending) == m.writer = "none" /\ ~pending

\* The pages are added before the goroutines start.
SetUpPage(name, visible) ==
    /\ \A g \in Callers : routine[g] = Idle
    /\ curr = <<>>
    /\ Len(WithoutPage(pages, name)) < MaxPages
    /\ AddPage(name, visible)

\* SwitchToPage, pages.go:287-300: the early return, or the loop is entered.
SwitchCall(name) ==
    /\ routine["switcher"].pc = "idle"
    /\ pages # <<>>
    /\ routine' =
           IF curr # <<>> /\ curr[1] = name
           THEN routine
           ELSE [routine EXCEPT !["switcher"] =
                    [pc |-> "loop", k |-> 1, name |-> name]]
    /\ last' = [Call("SwitchToPage") EXCEPT !.p = name]
    /\ UNCHANGED <<content, derived, viewport, config, changed, rect, threads,
                   fault, written, pages, curr, boxLock, pageLock>>

\* page.Lock(), pages.go:300.
SwitchLockPage ==
    /\ routine["switcher"].pc = "loop"
    /\ routine["switcher"].k <= Len(pages)
    /\ CanLock(pageLock[PageAt("switcher").Name])
    /\ pageLock' = [pageLock EXCEPT ![PageAt("switcher").Name].writer =
                                        "switcher"]
    /\ routine' = [routine EXCEPT !["switcher"].pc = "page"]
    /\ UNCHANGED <<pages, curr, boxLock>>
    /\ LockStep

\* pages.go:302-304 for the page asked for: it is shown, and its item
\* mounted, and the goroutine calls p.Lock().
SwitchShow ==
    /\ routine["switcher"].pc = "page"
    /\ PageAt("switcher").Name = routine["switcher"].name
    /\ pages' = [pages EXCEPT ![routine["switcher"].k].Visible = TRUE]
    /\ routine' = [routine EXCEPT !["switcher"].pc = "container"]
    /\ UNCHANGED <<curr, boxLock, pageLock>>
    /\ LockStep

\* p.Lock() returns, pages.go:306.
SwitchLockContainer ==
    /\ routine["switcher"].pc = "container"
    /\ CanLock(boxLock)
    /\ boxLock' = [boxLock EXCEPT !.writer = "switcher"]
    /\ routine' = [routine EXCEPT !["switcher"].pc = "current"]
    /\ UNCHANGED <<pages, curr, pageLock>>
    /\ LockStep

\* pages.go:307-312 and 317: p.curr is set, p.Unlock() and page.Unlock().
SwitchSetCurr ==
    /\ routine["switcher"].pc = "current"
    /\ curr' = <<PageAt("switcher").Name>>
    /\ boxLock' = Unlocked
    /\ pageLock' = [pageLock EXCEPT ![PageAt("switcher").Name] = Unlocked]
    /\ routine' = [routine EXCEPT !["switcher"].pc = "loop",
                                  !["switcher"].k = @ + 1]
    /\ UNCHANGED pages
    /\ LockStep

\* pages.go:313-317 for another page: it is hidden, and page.Unlock().
SwitchHide ==
    /\ routine["switcher"].pc = "page"
    /\ PageAt("switcher").Name # routine["switcher"].name
    /\ pages' = [pages EXCEPT ![routine["switcher"].k].Visible = FALSE]
    /\ pageLock' = [pageLock EXCEPT ![PageAt("switcher").Name] = Unlocked]
    /\ routine' = [routine EXCEPT !["switcher"].pc = "loop",
                                  !["switcher"].k = @ + 1]
    /\ UNCHANGED <<curr, boxLock>>
    /\ LockStep

\* pages.go:320-331 after the loop: p.RLock(), the changed handler,
\* p.RUnlock(), and the return.
SwitchReturn ==
    /\ routine["switcher"].pc = "loop"
    /\ routine["switcher"].k > Len(pages)
    /\ CanRLock(boxLock, LockPending)
    /\ routine' = [routine EXCEPT !["switcher"] = Idle]
    /\ UNCHANGED <<pages, curr, boxLock, pageLock>>
    /\ LockStep

\* Pages.Draw, pages.go:335-336: p.RLock().
PagesDrawCall ==
    /\ routine["render"].pc = "idle"
    /\ pages # <<>>
    /\ CanRLock(boxLock, LockPending)
    /\ boxLock' = [boxLock EXCEPT !.readers = @ \cup {"render"}]
    /\ routine' = [routine EXCEPT !["render"] =
                       [pc |-> "loop", k |-> 1, name |-> ""]]
    /\ UNCHANGED <<pages, curr, pageLock>>
    /\ LockStep

\* Pages.Draw, pages.go:338-351: page.RLock(), the page is drawn if it is
\* visible, page.RUnlock().
PagesDrawPage ==
    /\ routine["render"].pc = "loop"
    /\ routine["render"].k <= Len(pages)
    /\ CanRLock(pageLock[PageAt("render").Name], FALSE)
    /\ routine' = [routine EXCEPT !["render"].k = @ + 1]
    /\ UNCHANGED <<pages, curr, boxLock, pageLock>>
    /\ LockStep

\* Pages.Draw returns, and the deferred p.RUnlock() runs (pages.go:336).
PagesDrawReturn ==
    /\ routine["render"].pc = "loop"
    /\ routine["render"].k > Len(pages)
    /\ boxLock' = [boxLock EXCEPT !.readers = @ \ {"render"}]
    /\ routine' = [routine EXCEPT !["render"] = Idle]
    /\ UNCHANGED <<pages, curr, pageLock>>
    /\ LockStep

NextLocks ==
    \/ \E name \in PageNames, visible \in BOOLEAN : SetUpPage(name, visible)
    \/ \E name \in PageNames : SwitchCall(name)
    \/ SwitchLockPage
    \/ SwitchShow
    \/ SwitchLockContainer
    \/ SwitchSetCurr
    \/ SwitchHide
    \/ SwitchReturn
    \/ PagesDrawCall
    \/ PagesDrawPage
    \/ PagesDrawReturn

SpecLocks == Init /\ [][NextLocks]_vars

----------------------------------------------------------------------------
(* Every key: one goroutine sets the view up (a highlight, scrolling on   *)
(* or off), then writes lines, changes the height of the view, draws it    *)
(* and delivers every key the input handler knows.                         *)

\* The most lines written in one behaviour of SpecKeys.
MaxKeyLines == 1
\* The highest rectangle the view is given in SpecKeys.
MaxKeyRows == 2
\* How far from 0 the keys may take the two offsets between two draws.
MaxKeyOffset == 1

\* A Write of the stream of SpecKeys: a line of the log of SpecScroll.
WriteKeyLine ==
    /\ LinesWritten < MaxKeyLines
    /\ Write(NextLine)

\* The view is set up before the text is written.
SetUpKeyHighlight == written = <<>> /\ Highlight({RegionA})

SetUpScrollable(on) == written = <<>> /\ SetScrollable(on)

\* A key event of SpecKeys.
PressKey(key) ==
    /\ lineOffset \in -MaxKeyOffset..MaxKeyOffset
    /\ columnOffset \in -MaxKeyOffset..MaxKeyOffset
    /\ InputHandler(key)

NextKeys ==
    \/ SetUpKeyHighlight
    \/ \E on \in BOOLEAN : SetUpScrollable(on)
    \/ WriteKeyLine
    \/ \E h \in 0..MaxKeyRows : SetRect(NewBoxWidth, h)
    \/ \E key \in Keys : PressKey(key)
    \/ Draw

SpecKeys == Init /\ [][NextKeys]_vars

----------------------------------------------------------------------------
(* Every call that can leave the index stale, in any order, on a small     *)
(* text.                                                                   *)

\* Most bytes written in all.
MaxValid == 2

\* Widest inner rectangle.
MaxValidWidth == 1

\* Most settings that differ at one time from those of NewTextView.
MaxSettings == 2

\* The writes: a letter.
ValidInputs == {<<"a">>}

\* The base colors.
BaseColors == {"white", "red"}

\* The keys sent: one line down.
ValidKeys == {"j"}

\* How many settings differ from those of NewTextView (part_001:160-171).
Settings ==
    (IF wrap THEN 0 ELSE 1) + (IF wordWrap THEN 1 ELSE 0)
    + (IF align = "left" THEN 0 ELSE 1) + (IF dynamicColors THEN 1 ELSE 0)
    + (IF regions THEN 1 ELSE 0) + (IF textColor = "white" THEN 0 ELSE 1)
    + (IF scrollable THEN 0 ELSE 1) + (IF highlights = {} THEN 0 ELSE 1)

Few == Settings <= MaxSettings

WriteValid(p) ==
    /\ Len(written) + Len(p) <= MaxValid
    /\ Write(p)

ClearValid == Clear(CHOOSE th \in Threads : TRUE)

ScrollValid(key) == lineOffset \in -1..MaxValid /\ InputHandler(key)

NextValid ==
    \/ \E p \in ValidInputs : WriteValid(p)
    \/ ClearValid
    \/ Draw
    \/ \E ids \in {{}, {RegionA}} : Highlight(ids) /\ Few'
    \/ ScrollToHighlight
    \/ \E key \in ValidKeys : ScrollValid(key)
    \/ \E b \in BOOLEAN : SetWrap(b) /\ Few'
    \/ \E b \in BOOLEAN : SetWordWrap(b) /\ Few'
    \/ \E a \in Alignments : SetTextAlign(a) /\ Few'
    \/ \E b \in BOOLEAN : SetDynamicColors(b) /\ Few'
    \/ \E b \in BOOLEAN : SetRegions(b) /\ Few'
    \/ \E c \in BaseColors : SetTextColor(c) /\ Few'
    \/ \E b \in BOOLEAN : SetScrollable(b) /\ Few'
    \/ \E w \in 1..MaxValidWidth : SetRect(w, 1)

SpecValid == Init /\ [][NextValid]_vars

----------------------------------------------------------------------------
(* Several goroutines that call Write and one that calls Draw.  What Write *)
(* does between Lock and Unlock is split in two: it takes the pending      *)
(* bytes (part_001:424-425), then it stores the result (part_001:427-471). *)

\* Most Write calls of one producer.
MaxEach == 2

\* The goroutines that write, and what each call of theirs brings: a line,
\* and the first byte of a character of three bytes.
Producers == {"producer", "input"}
Brings == [producer |-> <<"a", "\n">>, input |-> <<"xE4">>]

\* How often producer th has called Write.
Calls(th) ==
    Cardinality({i \in 1..Len(written) : written[i] = Brings[th][1]})

\* Write is called by producer th (part_001:414-418, no handler is set).
CallWriteOf(th) ==
    /\ fault = "none"
    /\ stack[th] = <<>>
    /\ Calls(th) < MaxEach
    /\ Push(th, Frame("Write", Brings[th], changed, WriteDeferred(changed)))
    /\ written' = written \o Brings[th]
    /\ UNCHANGED <<container, content, derived, viewport, config, changed,
                   rect, mutex, fault, last>>

\* The frame f once the pending bytes rb were taken over into newBytes.
Taken(f, rb) ==
    [k \in DOMAIN f \cup {"recent"} |->
        IF k = "recent" THEN rb ELSE IF k = "pc" THEN "taken" ELSE f[k]]

\* Write, part_001:424-425: newBytes is the pending bytes and p, and
\* t.recentBytes is nil from here on.
WriteTake(th) ==
    /\ Running(th, "Write", "body")
    /\ recentBytes' = <<>>
    /\ SetTop(th, Taken(Top(th), recentBytes))
    /\ UNCHANGED <<container, buffer, derived, viewport, config, changed,
                   rect, mutex, fault, written, last>>

\* Write, part_001:427-471, on the bytes taken.
WriteCommit(th) ==
    /\ Running(th, "Write", "taken")
    /\ Install(WriteBody([View EXCEPT !.recentBytes = Top(th).recent],
                         Top(th).p))
    /\ SetTop(th, [Top(th) EXCEPT !.pc = "deferred", !.held = mutex])
    /\ UNCHANGED <<container, changed, mutex, written, last>>

NextProducers ==
    \/ \E th \in Producers : CallWriteOf(th)
    \/ CallDraw("render")
    \/ \E th \in Threads : Lock(th)
    \/ \E th \in Threads : WriteTake(th)
    \/ \E th \in Threads : WriteCommit(th)
    \/ \E th \in Threads : DrawReindexLocked(th)
    \/ \E th \in Threads : DrawIndexedLocked(th)
    \/ \E th \in Threads : RunUnlock(th)
    \/ \E th \in Threads : Return(th)

SpecProducers == Init /\ [][NextProducers]_vars

----------------------------------------------------------------------------
(* One stream written in pieces: the tag features are set first, then      *)
(* every division of every stream over WriteAlphabet into Write calls of   *)
(* at most MaxWriteLen bytes.                                              *)

\* Longest stream written in pieces.
MaxChunked == 3

WriteChunk(p) ==
    /\ Len(p) > 0
    /\ Len(written) + Len(p) <= MaxChunked
    /\ Write(p)

NextChunks ==
    \/ \E b \in BOOLEAN : SetUpColors(b)
    \/ \E b \in BOOLEAN : SetUpRegions(b)
    \/ \E p \in WriteInputs : WriteChunk(p)

SpecChunks == Init /\ [][NextChunks]_vars

----------------------------------------------------------------------------
(* A non-scrollable view that is written to and drawn in turns, so that    *)
(* Draw removes the lines above the window (part_001:823-828).             *)

\* Most bytes written in all.
MaxEvict == 7

\* Most rows of the window.
MaxEvictRows == 2

\* The writes: a letter, a line feed, a color tag, a region tag.
EvictInputs ==
    {<<"a">>, <<"\n">>, <<"[", "r", "e", "d", "]">>,
     <<"[", "\"", "a", "\"", "]">>}

SetUpFixed == written = <<>> /\ SetScrollable(FALSE)

SetUpRows(h) == written = <<>> /\ SetRect(NewBoxWidth, h)

WriteEvict(p) ==
    /\ Len(written) + Len(p) <= MaxEvict
    /\ Write(p)

NextEvict ==
    \/ \E b \in BOOLEAN : SetUpColors(b)
    \/ \E b \in BOOLEAN : SetUpRegions(b)
    \/ SetUpFixed
    \/ \E h \in 1..MaxEvictRows : SetUpRows(h)
    \/ \E p \in EvictInputs : WriteEvict(p)
    \/ Draw

SpecEvict == Init /\ [][NextEvict]_vars

----------------------------------------------------------------------------
(* Properties of stream ingest, checked under SpecWrite.                   *)

\* A byte stream as the text it stands for: tabs expanded, line breaks
\* taken as separators.
StreamText(s) == SplitNewLine(ReplaceTabs(s))

\* The lines of buf one after the other.
RECURSIVE Flat(_)
Flat(buf) == IF Len(buf) = 0 THEN <<>> ELSE Head(buf) \o Flat(Tail(buf))

IsLineBreakByte(b) == b \in {"\r", "\n"}

IsTextByte(b) == ~IsLineBreakByte(b)

\* The bytes of s that no line break can consume, tabs expanded.
TextBytes(s) == SelectSeq(ReplaceTabs(s), IsTextByte)

\* How many times byte b occurs in s.
Count(s, b) == Cardinality({i \in 1..Len(s) : s[i] = b})

\* p ends inside a multi-byte character.
EndsMidChar(p) ==
    /\ Len(p) > 0
    /\ \/ p[Len(p)] \in Lead2 \cup Lead3
       \/ Len(p) >= 2 /\ p[Len(p) - 1] \in Lead3 /\ p[Len(p)] \in Cont

\* C1: no written byte is lost.  The committed lines followed by the pending
\* bytes hold every byte of the stream written so far, in order, tabs
\* expanded: each line feed of the stream is pending or separates two lines,
\* each carriage return is pending, in a line, or was consumed with a line
\* feed, and every other byte is there once.
C1_NoByteLost ==
    /\ TextBytes(Flat(buffer) \o recentBytes) = TextBytes(written)
    /\ (IF Len(buffer) = 0 THEN 0 ELSE Len(buffer) - 1)
           + Count(recentBytes, "\n") = Count(written, "\n")
    /\ Count(Flat(buffer) \o recentBytes, "\r") <= Count(written, "\r")
    /\ Count(Flat(buffer) \o recentBytes, "\r")
           >= Count(written, "\r") - Count(written, "\n")

\* C2: Write returns (len(p), nil) for every input and every state of the
\* view, also when it holds the input back and commits nothing.
C2_WriteReturnsLen ==
    last.op = "Write" => last.n = Len(last.p) /\ last.err = "nil"

\* A Write that held back a non-empty input has returned.
C2_Witness ==
    last.op = "Write" /\ ~last.committed /\ Len(last.p) > 0

\* C3: a character split across two Write calls.  The call that ends with
\* its first byte commits nothing; the call that brings its last byte, made
\* while the first byte is pending, leaves the character whole at the end of
\* the last line with nothing pending.
C3_SplitCharWhole ==
    /\ last.op = "Write" /\ Len(last.p) > 0 /\ last.p[Len(last.p)] \in Lead2
       => buffer = last.buffer
    /\ (/\ last.op = "Write"
        /\ Len(last.recentBytes) > 0
        /\ last.recentBytes[Len(last.recentBytes)] \in Lead2
        /\ Len(last.p) = 1 /\ last.p[1] \in Cont)
       => /\ recentBytes = <<>>
          /\ Len(buffer) > 0
          /\ LET line == buffer[Len(buffer)]
             IN  /\ Len(line) >= 2
                 /\ line[Len(line) - 1] \in Lead2
                 /\ line[Len(line)] \in Cont

\* Whether s is an unterminated tag: an opening bracket with no closing one.
OpenTag(s) ==
    Len(s) > 0 /\ s[1] = "[" /\ \A i \in 1..Len(s) : s[i] # "]"

\* C4: with dynamic colors or regions on, a Write that commits holds exactly
\* the unterminated tag its bytes end in and commits everything before it:
\* the committed bytes followed by the pending bytes are the bytes it had,
\* and the pending bytes are empty or an unterminated tag.  Also with both
\* features on.
C4_PartialTagHeld ==
    last.op = "Write" /\ last.committed
        /\ (last.dynamicColors \/ last.regions)
    => /\ last.newBytes \o recentBytes = last.recentBytes \o last.p
       /\ recentBytes = <<>> \/ OpenTag(recentBytes)

\* C5: Write is append-only.  Every line before the previous last one stays
\* as it was, the previous last line is extended by the first segment of the
\* committed bytes, each further segment is a new last line, and no line
\* holds a line feed.
C5_AppendOnly ==
    last.op = "Write" =>
        LET old  == last.buffer
            n    == Len(old)
            segs == IF last.committed THEN StreamText(last.newBytes)
                    ELSE <<>>
            base == IF n = 0 THEN 1 ELSE n
        IN  /\ \A i \in 1..(n - 1) : buffer[i] = old[i]
            /\ ~last.committed => buffer = old
            /\ last.committed =>
                 /\ Len(buffer) = base + Len(segs) - 1
                 /\ buffer[base] = (IF n = 0 THEN <<>> ELSE old[n]) \o segs[1]
                 /\ \A k \in 2..Len(segs) : buffer[base + k - 1] = segs[k]
            /\ \A i \in 1..Len(buffer) :
                 \A j \in 1..Len(buffer[i]) : buffer[i][j] # "\n"

\* A Write extended the last of several lines and added a line after it.
C5_Witness ==
    /\ last.op = "Write"
    /\ Len(last.buffer) >= 2
    /\ Len(buffer) > Len(last.buffer)
    /\ buffer[Len(last.buffer)] # last.buffer[Len(last.buffer)]

\* C6 as stated: a Write whose input ends inside a multi-byte character
\* holds back only the trailing bytes of that character and commits the
\* text before them.
C6_OnlyTrailingHeld ==
    (/\ last.op = "Write"
     /\ last.recentBytes = <<>>
     /\ Len(last.p) >= 2
     /\ last.p[Len(last.p)] \in Lead2
     /\ IsASCII(last.p[Len(last.p) - 1]))
    => /\ recentBytes = <<last.p[Len(last.p)]>>
       /\ buffer # last.buffer

\* C6, amended: a Write whose input ends inside a multi-byte character
\* commits nothing; it holds back its whole input after the bytes that were
\* pending, and leaves the line buffer as it was.
C6_WholeInputHeld ==
    last.op = "Write" /\ EndsMidChar(last.p)
    => /\ ~last.committed
       /\ buffer = last.buffer
       /\ recentBytes = last.recentBytes \o last.p

\* A Write whose input was complete text followed by the first byte of a
\* character, made while bytes were pending.
C6_Witness ==
    /\ last.op = "Write"
    /\ EndsMidChar(last.p)
    /\ Len(last.p) >= 2 /\ IsASCII(last.p[1])
    /\ Len(last.recentBytes) > 0
    /\ recentBytes = last.recentBytes \o last.p

----------------------------------------------------------------------------
(* Properties of the locking and of the change handler, checked under      *)
(* SpecConc.                                                               *)

\* C7: every operation on the view's state runs under the one mutex, so a
\* scroll command of the input handler never runs while another goroutine
\* is between Lock and Unlock of a Write or a Draw.
C7_ScrollCommandsExcluded ==
    last.op = "Key" => last.held \notin (Threads \ {last.by})

\* C8: Write calls the change handler after it has released the mutex, so a
\* handler that calls Draw on the same view does not deadlock: the goroutine
\* that runs the handler does not hold the mutex when the handler starts,
\* and no goroutine waits for a mutex it holds itself.
C8_ChangedAfterUnlock ==
    /\ last.op = "changed" => last.held # last.by
    /\ \A th \in Threads :
         stack[th] # <<>> /\ Top(th).pc = "lock" => mutex # th

\* A Draw called by the change handler of a Write in progress, itself
\* called by the change handler of a Write in progress, holds the mutex.
C8_Witness ==
    \E th \in Threads :
        /\ Len(stack[th]) = 3
        /\ stack[th][1].op = "Write" /\ stack[th][1].notified
        /\ stack[th][2].op = "Write" /\ stack[th][2].notified
        /\ Top(th).op = "Draw" /\ Top(th).pc = "adjust"
        /\ mutex = th

\* C9: with a change handler registered, every Write and every Clear calls
\* it before returning (after the content was changed).
C9_ChangedAfterMutation ==
    last.op \in {"Write", "Clear"} /\ last.handler # "nil" => last.notified

----------------------------------------------------------------------------
(* Properties of the line index, checked under SpecIndex.                  *)

\* C10: with wrapping on and a width of at least 1, every entry of the
\* rebuilt index is at most as wide as the width it was built for, whatever
\* the buffer holds and whichever of word-wrap, dynamic colors and regions
\* are on.
C10_EntriesFitWidth ==
    wrap /\ lastWidth >= 1 =>
        \A k \in 1..Len(index) : index[k].Width <= lastWidth

----------------------------------------------------------------------------
(* Properties of word wrapping, checked under SpecWrap.                    *)

\* The number of leading bytes of str that fit in w columns.
HardLimit(str, w) ==
    Max({m \in 0..Len(str) : StringWidth(Slice(str, 1, m)) <= w})

\* The end of the run of whitespace that follows the first n bytes of str.
ThroughSpaces(str, n) ==
    Max({m \in n..Len(str) : \A i \in (n + 1)..m : str[i] \in Whitespace})

\* The last of the first x bytes of str that is whitespace or punctuation;
\* 0 when none is.
LastBoundary(str, x) ==
    Max({q \in 1..x : str[q] \in Whitespace \cup Punct} \cup {0})

\* Where a cut that falls inside str ends, given the hard limit x extended
\* through the whitespace after it and the last boundary b before x.
BoundaryOr(b, x) == IF b > 0 THEN b ELSE x

SoftLimit(str, x) == BoundaryOr(LastBoundary(str, x), x)

\* Where the first word-wrapped piece of str ends for width w.
CutOf(str, hard) ==
    IF hard = Len(str) THEN hard ELSE SoftLimit(str, ThroughSpaces(str, hard))

WordCut(str, w) == CutOf(str, HardLimit(str, w))

\* The number of leading bytes of piece left when its trailing whitespace
\* is taken off.
Shown(piece) ==
    Max({m \in 0..Len(piece) :
           m = 0 \/ piece[m] \notin Whitespace})

\* The entries of the word-wrapped rest of the logical line str (number
\* line) from byte pos on, given the end cut of its first piece.
RECURSIVE WordEntries(_, _, _, _)
RECURSIVE WordEntriesFrom(_, _, _, _, _)
WordEntriesFrom(str, line, pos, w, cut) ==
    <<[Line |-> line, Pos |-> pos,
       NextPos |-> pos + Shown(Slice(str, pos + 1, pos + cut)),
       Width |-> StringWidth(Slice(str, pos + 1,
                     pos + Shown(Slice(str, pos + 1, pos + cut))))]>>
    \o WordEntries(str, line, pos + cut, w)

WordEntries(str, line, pos, w) ==
    IF pos >= Len(str) THEN <<>>
    ELSE WordEntriesFrom(str, line, pos, w,
                         WordCut(Slice(str, pos + 1, Len(str)), w))

\* The entries of the logical lines of buf from line number line on.
RECURSIVE WordIndex(_, _, _)
WordIndex(buf, line, w) ==
    IF line >= Len(buf) THEN <<>>
    ELSE (IF Len(buf[line + 1]) = 0
          THEN <<[Line |-> line, Pos |-> 0, NextPos |-> 0, Width |-> 0]>>
          ELSE WordEntries(buf[line + 1], line, 0, w))
         \o WordIndex(buf, line + 1, w)

\* Where an index entry points, without its colors.
Place(e) ==
    [Line |-> e.Line, Pos |-> e.Pos, NextPos |-> e.NextPos, Width |-> e.Width]

\* The text an index entry shows.
EntryText(e) == Slice(buffer[e.Line + 1], e.Pos + 1, e.NextPos)

HelloWonderfulWorld ==
    <<"h", "e", "l", "l", "o", " ",
      "w", "o", "n", "d", "e", "r", "f", "u", "l", " ",
      "w", "o", "r", "l", "d">>

\* C11: with wrap and word-wrap on, a cut that falls inside the remaining
\* text is extended through the whitespace that follows it and then moved
\* back to the end of the last whitespace or punctuation boundary of the
\* piece, if there is one, and stays at the hard limit otherwise; the
\* trailing whitespace of a piece is in neither the width nor the byte range
\* of its entry.  For width 10, "hello wonderful world" gives exactly the
\* three entries "hello", "wonderful" and "world".
C11_WordWrapCuts ==
    wrap /\ wordWrap /\ index # <<>> =>
        /\ [k \in 1..Len(index) |-> Place(index[k])]
             = WordIndex(buffer, 0, lastWidth)
        /\ buffer = <<HelloWonderfulWorld>> /\ lastWidth = 10 =>
             [k \in 1..Len(index) |-> EntryText(index[k])]
               = << <<"h", "e", "l", "l", "o">>,
                    <<"w", "o", "n", "d", "e", "r", "f", "u", "l">>,
                    <<"w", "o", "r", "l", "d">> >>

\* The scenario: "hello wonderful world" indexed for width 10 with word-wrap
\* on.
C11_Witness ==
    /\ wrap /\ wordWrap /\ lastWidth = 10
    /\ buffer = <<HelloWonderfulWorld>>
    /\ Len(index) = 3

\* C12: every Draw, and the index rebuild it triggers, returns, for every
\* buffer content (lines with double-width characters included), every
\* width of at least 1 and every wrap and word-wrap setting: each pass of
\* the carving loop takes at least one byte off the remaining line, so that
\* no call is left running forever.
C12_DrawTerminates == fault # "hung"

----------------------------------------------------------------------------
(* Properties of the viewport, checked under SpecScroll.                   *)

\* The index a Draw called now works with (part_001:645).
DrawnIndex == DrawReindex(View).index

\* The line offset a Draw called now has when it comes to part_001:665.
OffsetBeforeClamp == DrawMoveToHighlights(DrawReindex(View)).lineOffset

\* len(index) - height, floored at 0, for a Draw called now.
LastPage == IF Len(DrawnIndex) - height < 0 THEN 0 ELSE Len(DrawnIndex) - height

\* C13: after every Draw that has a non-empty index, trackEnd is true if
\* lineOffset + height exceeded len(index); lineOffset is
\* max(len(index) - height, 0) if trackEnd is true; and lineOffset is
\* between 0 and max(len(index) - height, 0) in any case, whatever value the
\* scroll commands before the Draw left in it.
C13_LineOffsetClamped ==
    [][last'.op = "Draw" /\ Draw /\ Len(DrawnIndex) > 0 =>
          /\ OffsetBeforeClamp + height > Len(DrawnIndex) => trackEnd'
          /\ trackEnd' => lineOffset' = LastPage
          /\ 0 <= lineOffset' /\ lineOffset' <= LastPage]_vars

\* A Draw has brought the view to the last page of an index longer than the
\* view is high.
C13_Witness ==
    /\ last.op = "Draw" /\ scrollable /\ fault = "none"
    /\ trackEnd /\ Len(index) > height
    /\ lineOffset = Len(index) - height

\* C15: while trackEnd is true, a Draw with height h that follows Writes
\* appending lines leaves lineOffset = len(index) - h whenever
\* len(index) >= h, so that the last display line is in the window.
C15_TrackEndFollows ==
    [][trackEnd /\ last'.op = "Draw" /\ Draw /\ Len(DrawnIndex) >= height
          /\ Len(DrawnIndex) > 0 =>
          lineOffset' = Len(DrawnIndex) - height]_vars

\* Lines were appended to a view that tracks the end, and the Draw after
\* them shows the last MaxRows display lines.
C15_Witness ==
    /\ last.op = "Draw" /\ scrollable /\ fault = "none" /\ trackEnd
    /\ Len(last.buffer) = MaxLines + 1 /\ height = MaxRows
    /\ Len(index) = MaxLines + 1
    /\ lineOffset = Len(index) - height

\* The number of logical lines whose display rows all lie above row lo of
\* the index idx.
LinesAbove(idx, lo) ==
    Cardinality({l \in 0..(Len(buffer) - 1) :
                   \A k \in 1..Len(idx) : idx[k].Line = l => k <= lo})

\* C19: each Draw of a non-scrollable view returns with every logical line
\* that lies entirely above the visible window removed from the buffer and
\* no other line removed, the lines kept being in their order and unchanged;
\* the index is invalidated when lines were removed; and with a height of at
\* least 1 at most height logical lines remain.
C19_PurgeAboveWindow ==
    [][~scrollable /\ last'.op = "Draw" /\ Draw /\ Len(DrawnIndex) > 0 =>
          /\ fault' = "none"
          /\ buffer' = Slice(buffer, LinesAbove(DrawnIndex, lineOffset') + 1,
                             Len(buffer))
          /\ LinesAbove(DrawnIndex, lineOffset') > 0 => index' = <<>>
          /\ height >= 1 => Len(buffer') <= height]_vars

----------------------------------------------------------------------------
(* Properties of the column offset, checked under SpecColumns.             *)

\* max(longestLine - width, 0).
Overhang(longest, w) == IF longest - w > 0 THEN longest - w ELSE 0

\* The column offset c is in the range of alignment a for a longest line of
\* longest columns and a view w columns wide.
InAlignRange(a, c, longest, w) ==
    CASE a = "left" -> 0 <= c /\ c <= Overhang(longest, w)
      [] a = "right" -> -Overhang(longest, w) <= c /\ c <= 0
      [] OTHER -> IF GoDiv(longest - w, 2) > 0
                  THEN /\ -GoDiv(longest - w, 2) <= c
                       /\ c <= GoDiv(longest - w, 2)
                  ELSE c = 0

\* C14: after every Draw that has a non-empty index, columnOffset is in the
\* range of the alignment: [0, max(longestLine - width, 0)] when left-
\* aligned, [-max(longestLine - width, 0), 0] when right-aligned, and
\* [-half, half] with half = (longestLine - width) / 2 when centered and
\* half > 0, exactly 0 when centered otherwise; for any number of column
\* moves before the Draw.
C14_ColumnOffsetInRange ==
    [][last'.op = "Draw" /\ Draw /\ Len(DrawnIndex) > 0 =>
          InAlignRange(align, columnOffset', longestLine', width)]_vars

\* A Draw of a centered view has brought a column offset moved far to the
\* left back to the edge of its range.
C14_Witness ==
    /\ last.op = "Draw" /\ fault = "none" /\ index # <<>>
    /\ align = "center" /\ ~wrap
    /\ columnOffset < 0
    /\ columnOffset = -GoDiv(longestLine - lastWidth, 2)

----------------------------------------------------------------------------
(* Properties of scrolling to the highlights, checked under SpecHighlight. *)

\* The display lines first..to are in the window of h rows that starts at
\* row lo if they are at most h; otherwise the first of them is its top row.
RangeShown(first, to, lo, h) ==
    IF to - first + 1 <= h THEN lo <= first /\ to < lo + h
    ELSE lo = first

\* C16: when ScrollToHighlight was called on a scrollable view with regions
\* on and a highlight set, the next Draw that builds a non-empty index with
\* a highlight range leaves that range inside the window
\* [lineOffset, lineOffset + height) if it has at most height lines, and its
\* first line at the top otherwise, whatever keys were pressed and whatever
\* was written between the call and the Draw.
C16_HighlightShown ==
    [][(scrollToHighlights /\ scrollable /\ regions
        /\ last'.op = "Draw" /\ Draw
        /\ Len(DrawnIndex) > 0 /\ fromHighlight' >= 0) =>
          RangeShown(fromHighlight', toHighlight', lineOffset', height)]_vars

\* C17: the request to scroll to the highlights is one-shot: the first Draw
\* after ScrollToHighlight consumes the pending flag whatever the outcome,
\* also when there is no highlight range or the index is empty.
C17_RequestConsumed ==
    [][last'.op = "Draw" /\ Draw /\ fault' = "none" =>
          ~scrollToHighlights']_vars

----------------------------------------------------------------------------
(* Properties of a non-scrollable view, checked under SpecNav.             *)

\* A step of a navigation command: a key that moves the view, or one of
\* ScrollToBeginning, ScrollToEnd and ScrollToHighlight.
NavigationStep ==
    \/ \E key \in Keys \ DoneKeys : InputHandler(key)
    \/ ScrollToBeginning
    \/ ScrollToEnd
    \/ ScrollToHighlight

\* C18: while the view is non-scrollable trackEnd is true (the view is
\* scrollable when it is made, and every step keeps this), and the
\* navigation commands (line, column and page moves, jump to the top and to
\* the bottom, ScrollToBeginning, ScrollToEnd, ScrollToHighlight) leave
\* lineOffset, columnOffset, trackEnd and the pending scroll flag as they
\* are.
C18_NonScrollableFrozen ==
    [][/\ ~scrollable' => trackEnd'
       /\ (~scrollable /\ NavigationStep) =>
            UNCHANGED <<lineOffset, columnOffset, trackEnd,
                        scrollToHighlights>>]_vars

\* A key was delivered to a non-scrollable view that has text, regions and
\* a highlight.
C18_Witness ==
    /\ ~scrollable /\ last.op = "Key" /\ fault = "none"
    /\ regions /\ highlights # {} /\ buffer # <<>>
    /\ trackEnd

----------------------------------------------------------------------------
(* Properties of GetRegionText, checked under SpecRegion.                  *)

\* The lines of a buffer as one text, a line feed between two lines.
RECURSIVE JoinLines(_, _)
JoinLines(buf, k) ==
    IF k > Len(buf) THEN <<>>
    ELSE buf[k] \o (IF k < Len(buf) THEN <<"\n">> ELSE <<>>)
                \o JoinLines(buf, k + 1)

\* The number, among the region tags tags with ids ids, of the first tag
\* with the id region; 0 if there is none.
FirstTagOf(ids, region) ==
    IF \E k \in 1..Len(ids) : ids[k] = region
    THEN CHOOSE k \in 1..Len(ids) :
             ids[k] = region /\ \A j \in 1..(k - 1) : ids[j] # region
    ELSE 0

\* The region tags of the lines of the last call, as found in the whole text.
TagsOfLast == FindAll("region", JoinLines(last.buffer, 1))

OpeningOfLast ==
    FirstTagOf(Payloads("region", JoinLines(last.buffer, 1), TagsOfLast),
               RegionA)

\* The characters between the first tag that opens region "a" and the
\* region tag after it.
BetweenTags ==
    Slice(JoinLines(last.buffer, 1), TagsOfLast[OpeningOfLast].e + 1,
          TagsOfLast[OpeningOfLast + 1].s)

\* The same without the color tags, if dynamic colors are on.
BareBetweenTags ==
    IF last.dynamicColors
    THEN RemoveMatches(BetweenTags, FindAll("color", BetweenTags))
    ELSE BetweenTags

\* The last call was GetRegionText("a") with regions on, and in the lines
\* the first tag of region "a" is followed by another region tag.
AskedClosedRegion ==
    /\ last.op = "GetRegionText"
    /\ last.p = RegionA
    /\ last.regions
    /\ OpeningOfLast > 0
    /\ OpeningOfLast < Len(TagsOfLast)

\* C20: with regions on, if the first tag of region "a" in the lines is
\* followed by another region tag, GetRegionText("a") returns exactly the
\* characters between the two tags, a line feed for each line end between
\* them, without the color tags if dynamic colors are on, and nothing from
\* before the opening tag or after the closing one.
C20_RegionTextExact ==
    AskedClosedRegion => last.text = BareBetweenTags

\* The region spans two lines and holds a color tag that was stripped.
C20_Witness ==
    /\ AskedClosedRegion
    /\ last.dynamicColors
    /\ BetweenTags = <<"y", "[", "r", "]", "\n", "z">>
    /\ last.text = <<"y", "\n", "z">>

\* The last call was GetRegionText("a") with regions on, and in the lines
\* no region tag follows the first tag of region "a".
AskedOpenRegion ==
    /\ last.op = "GetRegionText"
    /\ last.p = RegionA
    /\ last.regions
    /\ OpeningOfLast > 0
    /\ OpeningOfLast = Len(TagsOfLast)

\* The characters from the first tag that opens region "a" to the end of
\* the lines, the line feed that ends the last line included.
AfterOpening ==
    Slice(JoinLines(last.buffer, 1), TagsOfLast[OpeningOfLast].e + 1,
          Len(JoinLines(last.buffer, 1))) \o <<"\n">>

\* The same without the color tags, if dynamic colors are on.
BareAfterOpening ==
    IF last.dynamicColors
    THEN RemoveMatches(AfterOpening, FindAll("color", AfterOpening))
    ELSE AfterOpening

\* A text with each escaped tag in it replaced by the tag it stands for.
Unescaped(text) == ReplaceEscapes(text, FindAll("escape", text))

\* C21: the text GetRegionText returns has the escape substitution applied:
\* an escaped tag inside the region comes out as the literal tag, both when
\* a region tag ends the region and when the region runs to the end of the
\* buffer.
C21_EscapesSubstituted ==
    /\ AskedClosedRegion => last.text = Unescaped(BareBetweenTags)
    /\ AskedOpenRegion => last.text = Unescaped(BareAfterOpening)

\* The ids of the region tags in the lines of the buffer.
RegionsOfBuffer ==
    Payloads("region", JoinLines(buffer, 1),
             FindAll("region", JoinLines(buffer, 1)))

\* The step is a call of GetRegionText.
RegionTextStep == last' # last /\ last'.op = "GetRegionText"

\* C22: GetRegionText returns the empty text and changes nothing of the
\* view when regions are off, when the id asked for is empty, and when no
\* region tag of the buffer has that id.
C22_NothingFound ==
    [][(/\ RegionTextStep
        /\ \/ ~regions
           \/ last'.p = <<>>
           \/ FirstTagOf(RegionsOfBuffer, last'.p) = 0) =>
          /\ last'.text = <<>>
          /\ fault' = "none"
          /\ UNCHANGED <<content, derived, viewport, config, changed, rect,
                         threads>>]_vars

\* Region "a" was asked for with regions on, in lines that hold text and a
\* region tag but no tag of region "a", and nothing came back.
C22_Witness ==
    /\ last.op = "GetRegionText"
    /\ last.p = RegionA
    /\ last.regions
    /\ Len(TagsOfLast) > 0
    /\ OpeningOfLast = 0
    /\ last.text = <<>>

----------------------------------------------------------------------------
(* Properties of the index of marked-up text, checked under SpecMarkup.    *)

\* The tags of one family in line l (from 1) of the buffer, if the family
\* is on.
TagsOfLine(on, kind, l) == FindTags(on, kind, buffer[l])

\* The payloads of the tags of one family that lie before byte pos of line
\* line (both from 0): those of the lines before and those of the line
\* that begin before pos.
RECURSIVE PayloadsBefore(_, _, _, _, _)
PayloadsBefore(on, kind, line, pos, l) ==
    IF l > line + 1 THEN <<>>
    ELSE SelectSeq(
             [k \in 1..Len(TagsOfLine(on, kind, l)) |->
                 [tag |-> TagsOfLine(on, kind, l)[k],
                  payload |-> TagPayload(kind, buffer[l],
                                         TagsOfLine(on, kind, l)[k])]],
             LAMBDA m : l <= line \/ m.tag.s < pos)
         \o PayloadsBefore(on, kind, line, pos, l + 1)

\* The color in force at byte pos of line line.
ColorAt(line, pos) ==
    LET before == PayloadsBefore(dynamicColors, "color", line, pos, 1)
    IN  IF before = <<>> THEN textColor
        ELSE GetColor(before[Len(before)].payload)

\* The region in force at byte pos of line line.
RegionAt(line, pos) ==
    LET before == PayloadsBefore(regions, "region", line, pos, 1)
    IN  IF before = <<>> THEN <<>>
        ELSE before[Len(before)].payload

----------------------------------------------------------------------------
(* Properties of the tag families, checked under SpecFeatures.             *)

\* A text without the tags of the family kind, if the family is on.
WithoutTags(on, kind, text) ==
    IF on THEN RemoveMatches(text, FindAll(kind, text)) ELSE text

\* What line l (from 1) of the buffer shows: the line without the tags of
\* the families that are on, the escaped tags in it replaced by the tags
\* they stand for if a family is on.
ShownLine(l) ==
    LET bare == WithoutTags(regions, "region",
                    WithoutTags(dynamicColors, "color", buffer[l]))
    IN  IF dynamicColors \/ regions THEN Unescaped(bare) ELSE bare

\* The sum of the widths of the entries k and later of line l (from 1).
RECURSIVE WidthOfLine(_, _)
WidthOfLine(l, k) ==
    IF k > Len(index) THEN 0
    ELSE (IF index[k].Line = l - 1 THEN index[k].Width ELSE 0)
         + WidthOfLine(l, k + 1)

\* C24: a tag family is markup only while its feature is on.  With dynamic
\* colors off every entry of the index starts in the base text color, with
\* regions off every entry starts in no region and there is no highlight
\* range, and the tags of a family that is off are part of the text shown:
\* the entries of a line are together as wide as the line without the tags
\* of the families that are on.
C24_TagsOnlyWhenEnabled ==
    index # <<>> =>
        /\ ~dynamicColors => \A k \in 1..Len(index) : index[k].Color = textColor
        /\ ~regions =>
             /\ \A k \in 1..Len(index) : index[k].Region = <<>>
             /\ fromHighlight = -1 /\ toHighlight = -1
        /\ \A l \in 1..Len(buffer) :
             WidthOfLine(l, 1) = StringWidth(ShownLine(l))

\* Both families are off, region "a" is highlighted, and the view was
\* drawn with a line that holds a color tag and the tag of region "a".
C24_Witness ==
    /\ ~dynamicColors /\ ~regions
    /\ highlights = {RegionA}
    /\ index # <<>>
    /\ FindAll("color", buffer[1]) # <<>>
    /\ RegionA \in {TagPayload("region", buffer[1], FindAll("region", buffer[1])[k]) :
                      k \in 1..Len(FindAll("region", buffer[1]))}

----------------------------------------------------------------------------
(* Properties of a Draw without room, checked under SpecNoRoom.            *)

\* C25: a Draw of a view whose inner width is less than 1 returns with no
\* index and the highlight range (-1, -1), before anything is painted or
\* adjusted: the buffer, the line offset, the column offset and trackEnd
\* are as before, and the call ends without a fault.
C25_NoRoomNoIndex ==
    [][(last'.op = "Draw" /\ width < 1 /\ Draw) =>
          /\ index' = <<>>
          /\ fromHighlight' = -1 /\ toHighlight' = -1
          /\ fault' = "none"
          /\ UNCHANGED <<buffer, lineOffset, columnOffset, trackEnd>>]_vars

\* The view was drawn with an index before, and its last Draw, at width 0
\* with text in the buffer, left none.
C25_Witness ==
    /\ last.op = "Draw"
    /\ width = 0 /\ lastWidth = 0
    /\ buffer # <<>>
    /\ trackEnd
    /\ index = <<>>
    /\ fromHighlight = -1 /\ toHighlight = -1

----------------------------------------------------------------------------
(* Properties of one line at several widths, checked under SpecWidth.      *)

\* What reindexBuffer builds for the buffer and the settings of the view at
\* the width w.
RebuiltAt(w) == ReindexBuffer([View EXCEPT !.index = <<>>, !.width = w])

\* C26: with the line and the wrap settings fixed, the index built one
\* column wider than the width of the last Draw has no more entries for the
\* line than the index that Draw built.
C26_WidthMonotone ==
    index # <<>> /\ lastWidth >= 1 =>
        /\ ~RebuiltAt(lastWidth + 1).diverges
        /\ Len(RebuiltAt(lastWidth + 1).index) <= Len(index)

\* A line was wrapped on words into three entries, and wraps into fewer one
\* column wider.
C26_Witness ==
    /\ wrap /\ wordWrap
    /\ Len(index) = 3
    /\ Len(RebuiltAt(lastWidth + 1).index) < 3

----------------------------------------------------------------------------
(* Properties of plain text in and out, checked under SpecRound.           *)

\* A byte stream with each tab replaced by TabSize spaces.
RECURSIVE ExpandTabs(_)
ExpandTabs(s) ==
    IF s = <<>> THEN <<>>
    ELSE (IF Head(s) = "\t" THEN [i \in 1..TabSize |-> " "] ELSE <<Head(s)>>)
         \o ExpandTabs(Tail(s))

\* Whether entry k of the index is the last one of its line.
EndsLine(k) == k = Len(index) \/ index[k + 1].Line # index[k].Line

\* The bytes of its line that entry k of the index claims.
Claimed(k) ==
    Slice(buffer[index[k].Line + 1], index[k].Pos + 1, index[k].NextPos)

\* The bytes between entry k and the next entry of its line, or the end of
\* the line.
Skipped(k) ==
    Slice(buffer[index[k].Line + 1], index[k].NextPos + 1,
          IF EndsLine(k) THEN Len(buffer[index[k].Line + 1])
          ELSE index[k + 1].Pos)

\* A line feed after the last entry of a line that another line follows.
LineBreak(k) == IF EndsLine(k) /\ k < Len(index) THEN <<"\n">> ELSE <<>>

\* The bytes the entries k and later claim, in display order.
RECURSIVE Reassembled(_)
Reassembled(k) ==
    IF k > Len(index) THEN <<>>
    ELSE Claimed(k) \o LineBreak(k) \o Reassembled(k + 1)

\* The same with the bytes that follow each entry unclaimed.
RECURSIVE ReassembledWithSkipped(_)
ReassembledWithSkipped(k) ==
    IF k > Len(index) THEN <<>>
    ELSE Claimed(k) \o Skipped(k) \o LineBreak(k)
         \o ReassembledWithSkipped(k + 1)

\* C27 as claimed: with dynamic colors and regions off, the byte ranges of
\* the index entries, in display order with a line feed between two lines,
\* give back the written input with its tabs expanded, for every width and
\* every wrap and word-wrap setting.
C27_RoundTrip ==
    index # <<>> /\ ~dynamicColors /\ ~regions =>
        Reassembled(1) = ExpandTabs(written)

\* C27 as amended: they give it back unless wrap and word wrap are both on;
\* then the entries leave out nothing but whitespace that follows them in
\* their line, and give back the input with that whitespace put back.
C27_RoundTripButTrimmed ==
    index # <<>> /\ ~dynamicColors /\ ~regions =>
        /\ ~(wrap /\ wordWrap) => Reassembled(1) = ExpandTabs(written)
        /\ ReassembledWithSkipped(1) = ExpandTabs(written)
        /\ \A k \in 1..Len(index) : AllIn(Skipped(k), 1, Len(Skipped(k)), Whitespace)

\* Word wrap is off, and the text drawn has a tab, a line feed and a line
\* wrapped into several entries.
C27_Witness ==
    /\ wrap /\ ~wordWrap
    /\ index # <<>>
    /\ Len(buffer) > 1
    /\ "\t" \in {written[i] : i \in 1..Len(written)}
    /\ \E k \in 1..(Len(index) - 1) : ~EndsLine(k)
    /\ Reassembled(1) = ExpandTabs(written)

----------------------------------------------------------------------------
(* Properties of the Pages container, checked under SpecPages.             *)

\* C28: after SwitchToPage(name) has returned, a page of the container is
\* visible exactly if it has that name.
C28_OnlySwitchedVisible ==
    last.op = "SwitchToPage" =>
        \A k \in 1..Len(pages) : pages[k].Visible <=> pages[k].Name = last.p

----------------------------------------------------------------------------
(* Properties of the index and the state it was built from, checked under  *)
(* SpecValid.                                                              *)

\* The index reindexBuffer builds from nothing for the buffer, the flags,
\* the highlights and the base color as they are, at the last drawn width.
FromScratch == ReindexBuffer([View EXCEPT !.index = <<>>, !.width = lastWidth])

\* C29: the index is absent or is the index a rebuild from scratch gives.
C29_IndexValid ==
    index # <<>> => index = FromScratch.index

----------------------------------------------------------------------------
(* Properties of the byte ranges of the index, checked under SpecMarkup.   *)

\* The tags of line l (from 1) of the buffer as it was written: those of
\* the families that are on, and the escaped tags if a family is on.
EnabledTags(l) ==
    TagsOfLine(dynamicColors, "color", l)
    \o TagsOfLine(regions, "region", l)
    \o TagsOfLine(dynamicColors \/ regions, "escape", l)

\* Byte offset pos of line l lies inside a tag: after its first byte and
\* before its end.
InsideTag(l, pos) ==
    \E m \in 1..Len(EnabledTags(l)) :
        EnabledTags(l)[m].s < pos /\ pos < EnabledTags(l)[m].e

\* What the bytes of entry k show: buffer[Line][Pos:NextPos] without the
\* tags of the families that are on, the escaped tags replaced.
ShownPiece(k) ==
    LET text == Slice(buffer[index[k].Line + 1], index[k].Pos + 1,
                      index[k].NextPos)
        bare == WithoutTags(regions, "region",
                    WithoutTags(dynamicColors, "color", text))
    IN  IF dynamicColors \/ regions THEN Unescaped(bare) ELSE bare

\* C30: the byte range of every entry of the index lies in its line, begins
\* and ends outside the tags of the line, and holds, the tags taken out,
\* text as wide as the entry's Width.
C30_RangesRespectTags ==
    \A k \in 1..Len(index) :
        /\ index[k].Pos <= index[k].NextPos
        /\ index[k].NextPos <= Len(buffer[index[k].Line + 1])
        /\ ~InsideTag(index[k].Line + 1, index[k].Pos)
        /\ ~InsideTag(index[k].Line + 1, index[k].NextPos)
        /\ StringWidth(ShownPiece(k)) = index[k].Width

----------------------------------------------------------------------------
(* Properties of the entries of one logical line, checked under SpecRound. *)

\* Whether entry k of the index is the first one of its line.
StartsLine(k) == k = 1 \/ index[k - 1].Line # index[k].Line

\* C31: the entries of one logical line are ordered and do not overlap: the
\* first starts at byte 0, every entry has Pos <= NextPos <= len(line), an
\* entry starts at or after the end of the one before, and the bytes of the
\* line that no entry covers are whitespace that the word-wrap trim took
\* off the end of an entry.
C31_EntriesInOrder ==
    \A k \in 1..Len(index) :
        /\ StartsLine(k) => index[k].Pos = 0
        /\ index[k].Pos <= index[k].NextPos
        /\ index[k].NextPos <= Len(buffer[index[k].Line + 1])
        /\ ~StartsLine(k) =>
              /\ index[k].Line = index[k - 1].Line
              /\ index[k].Pos >= index[k - 1].NextPos
        /\ StartsLine(k) /\ k > 1 => index[k].Line > index[k - 1].Line
        /\ AllIn(Skipped(k), 1, Len(Skipped(k)), Whitespace)
        /\ Skipped(k) # <<>> => wrap /\ wordWrap

\* Word wrap left bytes uncovered between two entries of one line.
C31_Witness ==
    \E k \in 1..Len(index) :
        /\ ~EndsLine(k)
        /\ Skipped(k) # <<>>
        /\ index[k].NextPos > index[k].Pos

----------------------------------------------------------------------------
(* Properties of the highlight range, checked under SpecFeatures.          *)

\* Byte b (from 0) of line l (from 1) is text: it lies in no color tag and
\* in no region tag of a family that is on.
IsText(l, b) ==
    /\ \A m \in 1..Len(TagsOfLine(dynamicColors, "color", l)) :
          ~(TagsOfLine(dynamicColors, "color", l)[m].s <= b
            /\ b < TagsOfLine(dynamicColors, "color", l)[m].e)
    /\ \A m \in 1..Len(TagsOfLine(regions, "region", l)) :
          ~(TagsOfLine(regions, "region", l)[m].s <= b
            /\ b < TagsOfLine(regions, "region", l)[m].e)

\* Entry k of the index holds text of a highlighted region.
HoldsHighlight(k) ==
    \E b \in index[k].Pos..(index[k].NextPos - 1) :
        /\ IsText(index[k].Line + 1, b)
        /\ RegionAt(index[k].Line, b) \in highlights

\* The entries (from 0) that hold text of a highlighted region.
HighlightedEntries == {k \in 0..(Len(index) - 1) : HoldsHighlight(k + 1)}

\* C32: after a rebuild the highlight range is (-1, -1) if no entry holds
\* text of a highlighted region, and otherwise runs from the first to the
\* last entry that does, the entries a wrapped region continues on
\* included.
C32_HighlightRange ==
    index # <<>> =>
        IF HighlightedEntries = {}
        THEN fromHighlight = -1 /\ toHighlight = -1
        ELSE /\ \A k \in HighlightedEntries : fromHighlight <= k
             /\ fromHighlight \in HighlightedEntries
             /\ \A k \in HighlightedEntries : k <= toHighlight
             /\ toHighlight \in HighlightedEntries

----------------------------------------------------------------------------
(* Properties of the move to the highlights, checked under SpecHighlight.  *)

\* A Draw that finds a pending request, regions on and a highlight range.
MovingDraw ==
    /\ last'.op = "Draw"
    /\ scrollToHighlights /\ regions
    /\ Draw
    /\ fault' = "none" /\ index' # <<>> /\ fromHighlight' >= 0

\* The line offset lo after the vertical clamping of a Draw that found
\* trackEnd as it is, with n display lines and the height h.
Clamped(lo, n, h) ==
    IF trackEnd \/ lo + h > n THEN Max({n - h, 0}) ELSE Max({lo, 0})

\* The centered offset of the claim: (fromHighlight + toHighlight - h)/2.
Centered(h) == GoDiv(fromHighlight' + toHighlight' - h, 2)

\* C33 as claimed: a Draw with a pending request, regions on and a highlight
\* range moves lineOffset, before the clamping, to the centered offset if
\* the lines of the range are at most height many, and to fromHighlight
\* otherwise.
C33_CenteredIfFits ==
    [][MovingDraw =>
         lineOffset' =
             Clamped(IF toHighlight' - fromHighlight' + 1 <= height
                     THEN Centered(height) ELSE fromHighlight',
                     Len(index'), height)]_vars

\* C33 as amended: the offset is the centered one if the lines of the range
\* are fewer than height, and fromHighlight otherwise.
C33_CenteredIfRoom ==
    [][MovingDraw =>
         lineOffset' =
             Clamped(IF toHighlight' - fromHighlight' + 1 < height
                     THEN Centered(height) ELSE fromHighlight',
                     Len(index'), height)]_vars

\* A Draw centered a range of one line in a window of two: the window
\* starts above the range and not at the end of the text.
C33_Witness ==
    /\ last.op = "Draw" /\ fault = "none"
    /\ fromHighlight = 1 /\ toHighlight = 1 /\ height = 2
    /\ lineOffset = 0 /\ ~trackEnd /\ Len(index) >= 3

----------------------------------------------------------------------------
(* Properties of concurrent writers, checked under SpecProducers.          *)

\* Goroutine th is between the Lock and the Unlock of a call.
InSection(th) ==
    /\ stack[th] # <<>>
    /\ \/ Top(th).pc \in {"body", "taken", "reindex", "adjust"}
       \/ Top(th).pc = "deferred" /\ Top(th).deferred # <<>>
          /\ Head(Top(th).deferred) = "Unlock"

\* Whether the Write that producer th called has not stored its result yet.
Uncommitted(th) ==
    /\ stack[th] # <<>>
    /\ Top(th).op = "Write"
    /\ Top(th).pc \in {"lock", "body", "taken"}

\* How many Writes of producer th have stored their result.
Committed(th) == Calls(th) - (IF Uncommitted(th) THEN 1 ELSE 0)

\* The buffers and pending bytes that n Writes of the producer and m of
\* the other one, run one after the other in any order, lead to from t.
RECURSIVE InSomeOrder(_, _, _)
InSomeOrder(t, n, m) ==
    IF n = 0 /\ m = 0 THEN {<<t.buffer, t.recentBytes>>}
    ELSE (IF n > 0
          THEN InSomeOrder(WriteBody(t, Brings["producer"]), n - 1, m)
          ELSE {})
         \cup (IF m > 0
               THEN InSomeOrder(WriteBody(t, Brings["input"]), n, m - 1)
               ELSE {})

\* The view before any Write.
Unwritten == [View EXCEPT !.buffer = <<>>, !.recentBytes = <<>>, !.index = <<>>]

\* C34: the Writes of several producers and the Draws of a render loop do
\* not interleave between Lock and Unlock.  No two goroutines are between
\* a Lock and its Unlock at once, so a Draw never runs while a Write has
\* taken the pending bytes and not yet stored its result; and whenever no
\* Write is in that state, at the end in particular, the buffer and the
\* pending bytes are those that the Writes that stored their result give
\* when run one after the other in some order.
C34_WritesAtomic ==
    /\ \A th \in Threads : \A other \in Threads \ {th} :
          ~(InSection(th) /\ InSection(other))
    /\ \A th \in Threads :
          stack[th] # <<>> /\ Top(th).op = "Draw" /\ InSection(th) =>
              \A w \in Producers :
                  ~(stack[w] # <<>> /\ Top(w).pc = "taken")
    /\ (\A w \in Producers : ~(stack[w] # <<>> /\ Top(w).pc = "taken")) =>
          <<buffer, recentBytes>>
              \in InSomeOrder(Unwritten, Committed("producer"),
                              Committed("input"))

\* All Writes have returned, the render loop is in a Draw, and the pending
\* byte of one producer came between the two lines of the other.
C34_Witness ==
    /\ \A w \in Producers : Calls(w) = MaxEach /\ stack[w] = <<>>
    /\ stack["render"] # <<>> /\ Top("render").pc = "adjust"
    /\ Len(buffer) = 3 /\ buffer[2] # <<"a">> /\ buffer[1] = <<"a">>

----------------------------------------------------------------------------
(* Properties of a stream written in pieces, checked under SpecChunks.     *)

\* Whether s is valid UTF-8: every lead byte is followed by a continuation
\* byte and every continuation byte follows a lead byte.
ValidUTF8(s) ==
    \A i \in 1..Len(s) :
        /\ s[i] \in Lead2 => i < Len(s) /\ s[i + 1] \in Cont
        /\ s[i] \in Cont => i > 1 /\ s[i - 1] \in Lead2

\* Whether s ends in an unterminated tag.
EndsInOpenTag(s) == \E i \in 1..Len(s) : OpenTag(SubSeq(s, i, Len(s)))

\* The view after one Write of the whole stream written so far.
WrittenWhole == WriteBody(Unwritten, written)

\* C35: the buffer does not depend on how a stream is divided into Write
\* calls.  After the calls that brought a stream of valid UTF-8 that does
\* not end in an unterminated tag, the logical lines are those that one
\* Write of the whole stream gives.
C35_ChunkingIndependent ==
    ValidUTF8(written) /\ ~EndsInOpenTag(written) =>
        buffer = WrittenWhole.buffer

----------------------------------------------------------------------------
(* Properties of the accesses of Draw, checked under SpecScroll.           *)

\* C36: a Draw that has an index reads it only in range: the line offset
\* it ends with is not negative, the eviction step of a non-scrollable
\* view reads index[lineOffset] only with lineOffset < len(index), and no
\* Draw ends in an index-out-of-range panic, whatever the height.
C36_DrawInRange ==
    [][last'.op = "Draw" /\ Draw /\ Len(DrawnIndex) > 0 =>
          /\ lineOffset' >= 0
          /\ ~scrollable /\ lineOffset' > 0 => lineOffset' < Len(DrawnIndex)
          /\ fault' # "panic"]_vars

----------------------------------------------------------------------------
(* Properties of the eviction of a non-scrollable view, checked under      *)
(* SpecEvict.                                                              *)

\* A Draw of a non-scrollable view that removes lines from the buffer.
EvictingDraw ==
    /\ last'.op = "Draw"
    /\ ~scrollable
    /\ Draw
    /\ fault' = "none" /\ Len(buffer') < Len(buffer)

\* The entries of idx that belong to the first n lines.
EntriesOf(idx, n) == Cardinality({k \in 1..Len(idx) : idx[k].Line < n})

\* Entry e with its line counted from the line n lines below.
Renumbered(e, n) == [e EXCEPT !.Line = @ - n]

\* C37: the eviction does not change what the lines that stay display.
\* The index rebuilt from the buffer a Draw has left holds, for the lines
\* that stay, the entries they had in the index of that Draw: the same
\* byte ranges and widths, the same starting color and the same starting
\* region, also where a tag of a removed line had set them.
C37_EvictionKeepsDisplay ==
    [][EvictingDraw =>
         LET gone == Len(buffer) - Len(buffer')
             skip == EntriesOf(DrawnIndex, gone)
             new == ReindexBuffer([View EXCEPT !.buffer = buffer',
                                               !.index = <<>>]).index
         IN  /\ Len(new) = Len(DrawnIndex) - skip
             /\ \A k \in 1..Len(new) :
                   new[k] = Renumbered(DrawnIndex[k + skip], gone)]_vars

----------------------------------------------------------------------------
(* Properties of the entries of an empty line, checked under SpecRound.    *)

\* The logical lines of the buffer that hold no byte, by line number.
EmptyLines == {n \in 0..Len(buffer) - 1 : buffer[n + 1] = <<>>}

\* The entries of the index that belong to logical line n.
EntriesOfLine(n) == {k \in 1..Len(index) : index[k].Line = n}

\* C38: in an index built for a width of 1 or more, every empty logical
\* line has exactly one entry, of width 0 and with Pos = NextPos = 0,
\* whatever wrap and wordWrap are, and the index has at least as many
\* entries as the buffer has lines.
C38_EmptyLineOneEntry ==
    (index # <<>> /\ lastWidth >= 1) =>
        /\ \A n \in EmptyLines :
               /\ Cardinality(EntriesOfLine(n)) = 1
               /\ \A k \in EntriesOfLine(n) :
                      /\ index[k].Pos = 0
                      /\ index[k].NextPos = 0
                      /\ index[k].Width = 0
        /\ Len(index) >= Len(buffer)

\* An index built with word wrap on for a buffer with an empty line between
\* two lines of text.
C38_Witness ==
    /\ last.op = "Draw"
    /\ index # <<>>
    /\ wrap /\ wordWrap
    /\ Len(buffer) = 3
    /\ buffer[1] # <<>> /\ buffer[2] = <<>> /\ buffer[3] # <<>>

----------------------------------------------------------------------------
(* Properties of the locks of the Pages, checked under SpecLocks.          *)

\* The locks goroutine g holds: the one of the container, and those of the
\* pages, by name.
HeldBy(g) ==
    (IF boxLock.writer = g \/ g \in boxLock.readers
     THEN {"container"} ELSE {})
    \cup {n \in PageNames : pageLock[n].writer = g \/ g \in pageLock[n].readers}

\* The lock goroutine g is waiting for, if it waits.
WaitsFor(g) ==
    IF g = "switcher" /\ routine[g].pc = "container" /\ ~CanLock(boxLock)
    THEN {"container"}
    ELSE IF /\ g = "switcher"
            /\ routine[g].pc = "loop"
            /\ routine[g].k <= Len(pages)
            /\ ~CanLock(pageLock[PageAt(g).Name])
    THEN {PageAt(g).Name}
    ELSE IF /\ g = "render"
            /\ routine[g].pc = "loop"
            /\ routine[g].k <= Len(pages)
            /\ ~CanRLock(pageLock[PageAt(g).Name], FALSE)
    THEN {PageAt(g).Name}
    ELSE {}

\* C39: SwitchToPage in one goroutine and Draw in the render goroutine
\* never reach a state in which each holds a lock, of the container or of
\* a page, that the other is waiting for.
C39_NoLockCycle ==
    ~(/\ WaitsFor("switcher") \cap HeldBy("render") # {}
      /\ WaitsFor("render") \cap HeldBy("switcher") # {})

----------------------------------------------------------------------------
(* Properties of the navigation commands, checked under SpecKeys.          *)

\* The step is the input handler called with key on a scrollable view.
Pressed(key) == last'.op = "Key" /\ scrollable /\ InputHandler(key)

\* The step leaves everything alone but the line offset, the column offset
\* and trackEnd.
OnlyViewport ==
    /\ UNCHANGED <<content, derived, config, rect, changed, fault, written>>
    /\ UNCHANGED <<pageSize, scrollToHighlights>>

\* The page size is the height of the last Draw: Draw sets it to the height
\* of the view, and no other step changes it.
PageIsLastHeight ==
    /\ pageSize' # pageSize => last'.op = "Draw" /\ pageSize' = height
    /\ (last'.op = "Draw" /\ pageSize' # height) => ~Draw

\* C40: on a scrollable view a navigation key changes viewport state only:
\* line up, page up and jump to top clear trackEnd, jump to bottom sets it
\* and sets columnOffset to 0, line down, page down and the column moves
\* leave trackEnd alone; a page move shifts lineOffset by the height of the
\* last Draw; no key changes the buffer, the index or the highlights, and
\* the done keys change no viewport state.
C40_KeysMoveViewportOnly ==
    [][/\ PageIsLastHeight
       /\ \A key \in Keys :
              Pressed(key) =>
                  /\ OnlyViewport
                  /\ key \in UpKeys \cup PageUpKeys \cup HomeKeys
                         => ~trackEnd'
                  /\ key \in EndKeys => trackEnd' /\ columnOffset' = 0
                  /\ key \in DownKeys \cup PageDownKeys \cup LeftKeys
                               \cup RightKeys
                         => trackEnd' = trackEnd
                  /\ key \in PageDownKeys
                         => lineOffset' = lineOffset + pageSize
                  /\ key \in PageUpKeys
                         => lineOffset' = lineOffset - pageSize
                  /\ key \in DoneKeys => UNCHANGED viewport]_vars

\* A page key has moved a scrollable view with text, an index and a
\* highlight by the height of a Draw that is not the height the view has
\* now.
C40_Witness ==
    /\ last.op = "Key"
    /\ scrollable
    /\ buffer # <<>>
    /\ index # <<>>
    /\ highlights # {}
    /\ pageSize > 0
    /\ pageSize # height
    /\ lineOffset = pageSize

=============================================================================
